---------------------------- MODULE Spec2Model ----------------------------
(***************************************************************************)
(* State-machine model of the GameCube controller enabler:                 *)
(*   - the DSU (cemuhook) server singleton, its pads and subscribers       *)
(*     (src/src/gc_controller/dsu_server.py)                               *)
(*   - the GUI orchestrator (src/src/gc_controller/app.py)                 *)
(*   - the USB/HID connection manager (connection_manager.py)              *)
(*   - the settings store (settings_manager.py)                            *)
(*   - the DSU packet builders at byte level, with zlib's CRC-32, and the  *)
(*     server's start(), stop() and listener thread (dsu_server.py)        *)
(*   - the BLE connect tool: main() and the command builders (src/tools/   *)
(*     ble_bumble_connect.py)                                              *)
(*   - main() and run_headless() (src/src/gc_controller/app.py)            *)
(*   - DSUGamepad.update() and reset() racing with close(), statement by   *)
(*     statement, and the pad's stick, trigger and button setters          *)
(*     (dsu_server.py)                                                     *)
(*   - the queue of command responses of the BLE connect tool              *)
(***************************************************************************)
EXTENDS Integers, Sequences, FiniteSets, TLC

VARIABLES
    \* ---- dsu_server.py: module globals and the DSUServer object ----
    server_instance,      \* _server_instance is not None
    server_refcount,      \* _server_refcount
    running,              \* DSUServer._running
    sock,                 \* DSUServer._sock is not None
    port,                 \* DSUServer._port (0 while unbound)
    slot_connected,       \* DSUServer._slot_connected
    slot_packet_counter,  \* DSUServer._slot_packet_counter
    slot_states,          \* DSUServer._slot_states
    subscribers,          \* DSUServer._subscribers, in dict (insertion) order
    pads,                 \* the DSUGamepad objects
    now,                  \* time.monotonic(), in seconds
    \* ---- observation of the DSU server ----
    sent,                 \* datagrams handed to sendto() by the last operation
    lastOp,               \* the last operation and how it ended
    lastReq,              \* per client: arrival time of its latest data request
    rxLast                \* per slot: the last packet number the watcher received

VARIABLES
    \* ---- connection_manager.py: ConnectionManager ----
    device,               \* ConnectionManager.device: "none", "open" or "stale"
    connCall              \* the last connect()/disconnect() call and its outcome

connVars == <<device, connCall>>

VARIABLES
    \* ---- app.py: GCControllerEnabler (GUI orchestrator) ----
    is_reading,               \* InputProcessor.is_reading: a read worker is active
    stop_event,               \* InputProcessor.stop_event is set
    is_emulating,             \* EmulationManager.is_emulating
    reconnect_was_emulating,  \* GCControllerEnabler._reconnect_was_emulating
    timers,                   \* pending root.after(2000, _attempt_reconnect)
    pendingDisc,              \* pending root.after(0, _on_unexpected_disconnect)
    emulate_btn,              \* the emulate button is enabled
    destroyed,                \* root.destroy() has run
    guiOp,                    \* the last callback run and what it invoked
    discWasEmu                \* emulation was active when the latest disconnect
                              \* was handled

VARIABLES
    slot_calibrations, \* SettingsManager._slot_calibrations: slot -> dict
    file,              \* gc_controller_settings.json as it is on disk
    saving,            \* save() has opened the file and not yet returned
    output,            \* the document save() is writing
    prevFile,          \* the file as the running or failed save() found it
    fresh,             \* the calibrations are untouched defaults
    loaded,            \* the file load() read into fresh calibrations
    hist               \* what the last save() wrote and what followed it

setVars == <<slot_calibrations, file, saving, output, prevFile, fresh,
             loaded, hist>>

VARIABLES
    axes,              \* DSUGamepad._state: the entries lx, ly, rx, ry
    stickCall          \* the last call on the pad's sticks

stickVars == <<axes, stickCall>>

VARIABLES
    built,             \* the packet built last and not yet sent, as bytes
    builtOf            \* which builder made it, and from what

pktVars == <<built, builtOf>>

VARIABLES
    thread,            \* DSUServer._thread is not None
    listener,          \* where the thread running _listen_loop is
    inbox,             \* datagrams received by the socket and not yet read
    handled,           \* the datagram the listener read last
    replies,           \* what the listener sent for it
    startCall,         \* the last call of start(): the busy ports, the outcome
    stopCall,          \* how far the last call of stop() has got
    lateHandled        \* a datagram received after a stop() returned was handled

lsnVars == <<thread, listener, inbox, handled, replies, startCall, stopCall,
             lateHandled>>

VARIABLES
    blePc,             \* tools/ble_bumble_connect.py main(): the step reached
    disconnected,      \* the asyncio.Event set by the disconnection handler
    bleOut,            \* the outcomes of the awaits of steps 5 and 6
    argv,              \* the switches on the command line
    scan,              \* what scan_for_controller() came to
    is_encrypted,      \* connection.is_encrypted
    ltk_bytes,         \* the LTK taken from the pairing block, << >> for None
    ediv_value,        \* the EDIV taken from the pairing block
    rand_bytes,        \* the Rand taken from the pairing block
    attempts,          \* step 4f: the attempts the loop has not come to yet
    tried,             \* step 4f: the attempts made, in order
    bleLog,            \* the operations carried out on the link, in order
    timeouts,          \* the steps whose response wait timed out
    cmd_resp_cccd      \* the peer's command-response CCCD (handle 0x001B)

keyVars == <<ltk_bytes, ediv_value, rand_bytes>>

bleVars == <<blePc, disconnected, bleOut, argv, scan, is_encrypted, keyVars,
             attempts, tried, bleLog, timeouts, cmd_resp_cccd>>

VARIABLES
    cmdCall,           \* tools/ble_bumble_connect.py: the builder called last
    cmdPkt             \* the command packet it returned

cmdVars == <<cmdCall, cmdPkt>>

VARIABLES
    \* ---- app.py: main() and run_headless() ----
    hPc,               \* where main() is: "gui" while app.run() runs
    mode_override,     \* args.mode
    hFile,             \* the settings file in the working directory
    calibration,       \* run_headless's calibration dict
    load_failed,       \* load() printed "Failed to load settings"
    mode,              \* the emulation mode run_headless binds
    main_stop_event,   \* run_headless's stop_event
    disconnect_event,  \* run_headless's disconnect_event
    was_emulating,     \* run_headless's was_emulating
    hCalls             \* the stop and close calls of the last step, in order

headVars == <<hPc, mode_override, hFile, calibration, load_failed, mode,
              main_stop_event, disconnect_event, was_emulating, hCalls>>

VARIABLES
    \* ---- dsu_server.py: one DSUGamepad used by two threads ----
    rClosed,           \* the pad's _closed
    rState,            \* the pad's _state
    rRefcount,         \* _server_refcount
    rInstance,         \* _server_instance is not None
    rRunning,          \* the server's _running
    rSock,             \* the server's _sock: "open", "closed" or "none"
    rConnected,        \* _slot_connected of the pad's slot
    rSlotState,        \* _slot_states of the pad's slot
    rCounter,          \* _slot_packet_counter of the pad's slot
    rSubs,             \* the number of subscribed clients
    uPc,               \* where the input thread is in update() or reset()
    uOp,               \* which of the two it called
    uCtr,              \* the counter value read by the += of update_slot
    uPkt,              \* the packet built by _send_data_to_subscribers
    uIdx,              \* the subscriber the send loop has reached
    cPc,               \* where the other thread is in close()
    sentAfterClose     \* a packet went out after close() had returned

raceVars == <<rClosed, rState, rRefcount, rInstance, rRunning, rSock,
              rConnected, rSlotState, rCounter, rSubs, uPc, uOp, uCtr, uPkt,
              uIdx, cPc, sentAfterClose>>

VARIABLES
    \* ---- tools/ble_bumble_connect.py: the command responses ----
    hsStep,            \* the handshake step main() is at (index in HsOrder)
    hsPhase,           \* "write", "wait", or "done" after step 4e
    cmd_responses,     \* the asyncio.Queue filled by on_cmd_response
    hsUnanswered,      \* commands written that the peripheral has not answered
    hsGot              \* per step: which command's reply its wait returned

respVars == <<hsStep, hsPhase, cmd_responses, hsUnanswered, hsGot>>

VARIABLES
    \* ---- dsu_server.py: one DSUGamepad's buttons, sticks and triggers ----
    _state,            \* DSUGamepad._state, the pad's state dict
    padCall,           \* the last setter called, with its arguments
    padCalls           \* how many setters were called (at most MaxPadCalls)

padVars == <<_state, padCall, padCalls>>

guiVars == <<is_reading, stop_event, is_emulating, reconnect_was_emulating,
             timers, pendingDisc, emulate_btn, destroyed, guiOp, discWasEmu>>

dsuVars == <<server_instance, server_refcount, running, sock, port,
             slot_connected, slot_packet_counter, slot_states, subscribers,
             pads, now, sent, lastOp, lastReq, rxLast>>

vars == <<dsuVars, connVars, guiVars, setVars, stickVars, pktVars, lsnVars,
          bleVars, cmdVars, headVars, raceVars,
          respVars,
          padVars>>

\* what the actions of one component leave alone
nonDsuVars == <<connVars, guiVars, setVars, stickVars, pktVars, lsnVars,
                bleVars, cmdVars, headVars, raceVars, respVars, padVars>>
nonConnVars == <<dsuVars, guiVars, setVars, stickVars, pktVars, lsnVars,
                 bleVars, cmdVars, headVars, raceVars, respVars, padVars>>
nonGuiVars == <<dsuVars, setVars, stickVars, pktVars, lsnVars, bleVars,
                cmdVars, headVars, raceVars, respVars, padVars>>
nonSetVars == <<dsuVars, connVars, guiVars, stickVars, pktVars, lsnVars,
                bleVars, cmdVars, headVars, raceVars, respVars, padVars>>
nonStickVars == <<dsuVars, connVars, guiVars, setVars, pktVars, lsnVars,
                  bleVars, cmdVars, headVars, raceVars, respVars, padVars>>
nonPktVars == <<dsuVars, connVars, guiVars, setVars, stickVars, lsnVars,
                bleVars, cmdVars, headVars, raceVars, respVars, padVars>>
nonBleVars == <<dsuVars, connVars, guiVars, setVars, stickVars, pktVars,
                lsnVars, cmdVars, headVars, raceVars, respVars, padVars>>

nonCmdVars == <<dsuVars, connVars, guiVars, setVars, stickVars, pktVars,
                lsnVars, bleVars, headVars, raceVars, respVars, padVars>>

\* run_headless works on the same InputProcessor, EmulationManager and
\* ConnectionManager fields as the GUI orchestrator
nonHeadVars == <<dsuVars, setVars, stickVars, pktVars, lsnVars, bleVars,
                 cmdVars, raceVars, respVars, padVars>>

nonRaceVars == <<dsuVars, connVars, guiVars, setVars, stickVars, pktVars,
                 lsnVars, bleVars, cmdVars, headVars, respVars, padVars>>

nonRespVars == <<dsuVars, connVars, guiVars, setVars, stickVars, pktVars,
                 lsnVars, bleVars, cmdVars, headVars, raceVars, padVars>>

nonPadVars == <<dsuVars, connVars, guiVars, setVars, stickVars, pktVars,
                lsnVars, bleVars, cmdVars, headVars, raceVars, respVars>>

\* what the DSU server and its listener leave alone
nonServerVars == <<connVars, guiVars, setVars, stickVars, pktVars, bleVars,
                   cmdVars, headVars, raceVars, respVars, padVars>>

-----------------------------------------------------------------------------
(* Bounds of the model *)
MaxPads == 2
MaxPadSlot == 1
MaxCounter == 2
MaxClients == 2
MaxTime == 6
MaxTimers == 2
MaxPending == 2
MaxEdits == 1

(* Program constants *)
NumSlots == 4
BASE_PORT == 26760
MAX_PORT_ATTEMPTS == 5
SUBSCRIBER_TTL == 5
MAX_SLOTS == 4

Slots == 0 .. (NumSlots - 1)
PadSlots == 0 .. MaxPadSlot
PadIds == 1 .. MaxPads
Clients == 1 .. MaxClients
\* the client whose received packets are observed
Watcher == CHOOSE c \in Clients : \A d \in Clients : c <= d
NoTime == 0 - 1

Neutral == "neutral"
Dirty == "dirty"

RECURSIVE SelectSeqBy(_, _)
\* the subsequence of s whose entries are not expired at time t
SelectSeqBy(s, t) ==
    IF s = << >> THEN << >>
    ELSE IF Head(s).exp < t THEN SelectSeqBy(Tail(s), t)
         ELSE <<Head(s)>> \o SelectSeqBy(Tail(s), t)

SubAddrs(subs) == { subs[i].addr : i \in DOMAIN subs }

-----------------------------------------------------------------------------
(* DSUServer *)

\* DSUServer.__init__: a fresh server object
FreshSlotConnected == [s \in Slots |-> FALSE]
FreshCounters == [s \in Slots |-> 0]
FreshStates == [s \in Slots |-> Neutral]

\* start() taking the highest port that binds
LastFree(busy) ==
    IF \E o \in 0 .. (MAX_PORT_ATTEMPTS - 1) : (BASE_PORT + o) \notin busy
    THEN BASE_PORT +
         CHOOSE o \in 0 .. (MAX_PORT_ATTEMPTS - 1) :
            /\ (BASE_PORT + o) \notin busy
            /\ \A q \in 0 .. (MAX_PORT_ATTEMPTS - 1) :
                  (BASE_PORT + q) \notin busy => o >= q
    ELSE 0

\* DSUServer.start: the first port of BASE_PORT.. that binds, 0 when none does
FirstFree(busy) ==
    IF \E o \in 0 .. (MAX_PORT_ATTEMPTS - 1) : (BASE_PORT + o) \notin busy
    THEN BASE_PORT +
         CHOOSE o \in 0 .. (MAX_PORT_ATTEMPTS - 1) :
            /\ (BASE_PORT + o) \notin busy
            /\ \A q \in 0 .. (MAX_PORT_ATTEMPTS - 1) :
                  (BASE_PORT + q) \notin busy => o <= q
    ELSE 0


\* DSUServer.set_slot_connected: the connected flags afterwards
ConnectedAfter(conn, slot, connected) == [conn EXCEPT ![slot] = connected]

\* DSUServer.set_slot_connected: the slot states afterwards
StatesAfterConnected(states, slot, connected) ==
    IF ~connected THEN [states EXCEPT ![slot] = Neutral] ELSE states

\* DSUServer.set_slot_connected: the packet counters afterwards
CountersAfterConnected(ctr, slot, connected) ==
    IF ~connected THEN [ctr EXCEPT ![slot] = 0] ELSE ctr

\* DSUServer.update_slot: the packet counters after the increment
CountersAfterUpdate(ctr, slot) == [ctr EXCEPT ![slot] = ctr[slot] + 1]

\* DSUServer._handle_data_request: dict assignment subscribers[addr] = expiry
PutSubscriber(subs, addr, expiry) ==
    IF addr \in SubAddrs(subs)
    THEN [i \in DOMAIN subs |->
            IF subs[i].addr = addr THEN [addr |-> addr, exp |-> expiry]
            ELSE subs[i]]
    ELSE Append(subs, [addr |-> addr, exp |-> expiry])

\* DSUServer._handle_data_request: the expiry given to a request arriving at t
ExpiryFor(t) == t + SUBSCRIBER_TTL

RECURSIVE SelectSeqStrict(_, _)
SelectSeqStrict(s, t) ==
    IF s = << >> THEN << >>
    ELSE IF Head(s).exp <= t THEN SelectSeqStrict(Tail(s), t)
         ELSE <<Head(s)>> \o SelectSeqStrict(Tail(s), t)

\* mutant of Pruned: an entry expiring exactly now is dropped (<= for <)
PrunedAtBoundary(subs, t) == SelectSeqStrict(subs, t)

\* DSUServer._send_data_to_subscribers: the subscribers kept by the prune
Pruned(subs, t) == SelectSeqBy(subs, t)

\* DSUServer._build_data_packet: the packet number carried by the packet
PacketNumber(ctr, slot) == ctr[slot]

\* mutant of SendLoop: the first failing sendto() ends the loop
SendLoopAbort(subs, slot, pkt, fail) ==
    LET n == IF \E i \in DOMAIN subs : subs[i].addr \in fail
             THEN CHOOSE i \in DOMAIN subs :
                     /\ subs[i].addr \in fail
                     /\ \A j \in DOMAIN subs : subs[j].addr \in fail => i <= j
             ELSE Len(subs)
    IN  [i \in 1 .. n |->
            [to |-> subs[i].addr, slot |-> slot, pkt |-> pkt,
             ok |-> subs[i].addr \notin fail]]

\* DSUServer._send_data_to_subscribers: one sendto() per kept subscriber;
\* an OSError of one sendto() is swallowed and the loop goes on
SendLoop(subs, slot, pkt, fail) ==
    [i \in DOMAIN subs |->
        [to |-> subs[i].addr, slot |-> slot, pkt |-> pkt,
         ok |-> subs[i].addr \notin fail]]

\* DSUServer._send_data_to_subscribers: the subscriber map after the sends
SubscribersAfterSend(subs, fail) == subs

\* DSUServer._send_data_to_subscribers: whether an exception leaves the call
SendRaises(subs, fail) == FALSE

NoOp == [op |-> "none", slot |-> 0, ctr0 |-> 0, npkt |-> 0, raised |-> FALSE]

\* what the watcher has received for the slot after this batch of sends
WatcherGot(out) == \E i \in DOMAIN out : out[i].to = Watcher /\ out[i].ok

\* DSUServer.update_slot(slot, state), called by a pad bound to the slot
update_slot(slot, state, fail) ==
    LET ctr1 == CountersAfterUpdate(slot_packet_counter, slot)
        kept == Pruned(subscribers, now)
        pkt  == PacketNumber(ctr1, slot)
        out  == IF sock THEN SendLoop(kept, slot, pkt, fail) ELSE << >>
    IN  /\ slot_states' = [slot_states EXCEPT ![slot] = state]
        /\ slot_packet_counter' = ctr1
        /\ subscribers' = IF sock THEN SubscribersAfterSend(kept, fail)
                          ELSE subscribers
        /\ sent' = out
        /\ lastOp' = [op |-> "update", slot |-> slot,
                      ctr0 |-> slot_packet_counter[slot],
                      npkt |-> IF sock THEN 1 ELSE 0,
                      raised |-> sock /\ SendRaises(kept, fail)]
        /\ rxLast' = IF WatcherGot(out) THEN [rxLast EXCEPT ![slot] = pkt]
                      ELSE IF sock /\ Watcher \notin SubAddrs(kept)
                           THEN FreshCounters \* its subscription lapsed
                           ELSE rxLast

-----------------------------------------------------------------------------
(* The module singleton: _acquire_server / _release_server *)

\* _release_server: the refcount after the decrement (clamped at zero)
RefcountAfterRelease(rc) == IF rc - 1 <= 0 THEN 0 ELSE rc - 1

\* _release_server: whether the instance is stopped and discarded
ReleaseStops(rc) == rc - 1 <= 0

NoPad == [st |-> "none", slot |-> 0, state |-> Neutral]

OpenPads == { p \in PadIds : pads[p].st = "open" }

\* DSUGamepad.__init__(slot_index) of a new pad object p;
\* busy is the set of ports other processes hold
Construct(p, s, busy) ==
    /\ pads[p].st # "open"
    /\ UNCHANGED nonDsuVars
    /\ LET bound == FirstFree(busy)
           creating == ~server_instance
           startFails == creating /\ bound = 0
       IN  \* _acquire_server
           /\ server_instance' = TRUE
           /\ sock' = IF creating THEN TRUE ELSE sock
           /\ port' = IF creating THEN bound ELSE port
           /\ running' = IF creating THEN bound # 0 ELSE running
           /\ subscribers' = IF creating THEN << >> ELSE subscribers
           /\ rxLast' = IF creating THEN FreshCounters ELSE rxLast
           /\ lastReq' = IF creating THEN [c \in Clients |-> NoTime] ELSE lastReq
           /\ IF startFails
              THEN \* start() raised RuntimeError: no pad object comes to exist
                   /\ server_refcount' = server_refcount
                   /\ slot_connected' = FreshSlotConnected
                   /\ slot_packet_counter' = FreshCounters
                   /\ slot_states' = FreshStates
                   /\ pads' = [pads EXCEPT ![p] = NoPad]
                   /\ lastOp' = [NoOp EXCEPT !.op = "construct", !.raised = TRUE]
              ELSE /\ server_refcount' = server_refcount + 1
                   /\ slot_connected' =
                        ConnectedAfter(IF creating THEN FreshSlotConnected
                                       ELSE slot_connected, s, TRUE)
                   /\ slot_packet_counter' =
                        CountersAfterConnected(IF creating THEN FreshCounters
                                               ELSE slot_packet_counter, s, TRUE)
                   /\ slot_states' =
                        StatesAfterConnected(IF creating THEN FreshStates
                                             ELSE slot_states, s, TRUE)
                   /\ pads' = [pads EXCEPT ![p] =
                                [st |-> "open", slot |-> s, state |-> Neutral]]
                   /\ lastOp' = [NoOp EXCEPT !.op = "construct"]
    /\ sent' = << >>
    /\ UNCHANGED now

\* DSUGamepad.close()
Close(p) ==
    /\ pads[p].st \in {"open", "closed"}
    /\ UNCHANGED nonDsuVars
    /\ sent' = << >>
    /\ IF pads[p].st = "closed"
       THEN /\ lastOp' = [NoOp EXCEPT !.op = "close_again"]
            /\ UNCHANGED <<server_instance, server_refcount, running, sock, port,
                           slot_connected, slot_packet_counter, slot_states,
                           subscribers, pads, now, lastReq, rxLast>>
       ELSE LET s == pads[p].slot
                stops == ReleaseStops(server_refcount) /\ server_instance
            IN  /\ pads' = [pads EXCEPT ![p].st = "closed"]
                /\ slot_connected' = ConnectedAfter(slot_connected, s, FALSE)
                /\ slot_states' = StatesAfterConnected(slot_states, s, FALSE)
                /\ slot_packet_counter' =
                      CountersAfterConnected(slot_packet_counter, s, FALSE)
                /\ server_refcount' = RefcountAfterRelease(server_refcount)
                /\ server_instance' = IF stops THEN FALSE ELSE server_instance
                /\ running' = IF stops THEN FALSE ELSE running
                /\ sock' = IF stops THEN FALSE ELSE sock
                /\ lastOp' = [NoOp EXCEPT !.op = "close"]
                /\ rxLast' = IF stops THEN FreshCounters ELSE rxLast
                /\ UNCHANGED <<port, subscribers, now, lastReq>>

\* the subscribers a sendto() of the next update can fail for
Sendable == SubAddrs(Pruned(subscribers, now))

\* DSUGamepad.update()
Update(p, fail) ==
    /\ pads[p].st = "open"
    /\ UNCHANGED nonDsuVars
    /\ slot_packet_counter[pads[p].slot] < MaxCounter
    /\ update_slot(pads[p].slot, pads[p].state, fail)
    /\ UNCHANGED <<server_instance, server_refcount, running, sock, port,
                   slot_connected, pads, now, lastReq>>

\* DSUGamepad.reset()
Reset(p, fail) ==
    /\ pads[p].st = "open"
    /\ UNCHANGED nonDsuVars
    /\ slot_packet_counter[pads[p].slot] < MaxCounter
    /\ pads' = [pads EXCEPT ![p].state = Neutral]
    /\ update_slot(pads[p].slot, Neutral, fail)
    /\ UNCHANGED <<server_instance, server_refcount, running, sock, port,
                   slot_connected, now, lastReq>>

\* DSUServer._listen_loop receives a pad-data request from client c
\* and runs _handle_data_request
DataRequest(c) ==
    /\ server_instance /\ running /\ sock
    /\ UNCHANGED nonDsuVars
    /\ subscribers' = PutSubscriber(subscribers, c, ExpiryFor(now))
    /\ lastReq' = [lastReq EXCEPT ![c] = now]
    /\ sent' = << >>
    /\ lastOp' = [NoOp EXCEPT !.op = "data_request"]
    /\ UNCHANGED <<server_instance, server_refcount, running, sock, port,
                   slot_connected, slot_packet_counter, slot_states, pads, now,
                   rxLast>>

\* one second passes on the monotonic clock
Tick ==
    /\ now < MaxTime
    /\ UNCHANGED nonDsuVars
    /\ now' = now + 1
    /\ sent' = << >>
    /\ lastOp' = NoOp
    /\ UNCHANGED <<server_instance, server_refcount, running, sock, port,
                   slot_connected, slot_packet_counter, slot_states,
                   subscribers, pads, lastReq, rxLast>>

\* the port sets the environment may hold when the server starts
BusyChoices == { {}, {BASE_PORT},
                 { BASE_PORT + o : o \in 0 .. (MAX_PORT_ATTEMPTS - 1) } }

DsuInit ==
    /\ server_instance = FALSE
    /\ server_refcount = 0
    /\ running = FALSE
    /\ sock = FALSE
    /\ port = 0
    /\ slot_connected = FreshSlotConnected
    /\ slot_packet_counter = FreshCounters
    /\ slot_states = FreshStates
    /\ subscribers = << >>
    /\ pads = [p \in PadIds |-> NoPad]
    /\ now = 0
    /\ sent = << >>
    /\ lastOp = NoOp
    /\ lastReq = [c \in Clients |-> NoTime]
    /\ rxLast = FreshCounters

\* the pads and the singleton, observed by one subscribed client
PadNext ==
    \/ \E p \in PadIds, s \in PadSlots, busy \in BusyChoices : Construct(p, s, busy)
    \/ \E p \in PadIds : Close(p)
    \/ \E p \in PadIds, fail \in SUBSET Sendable : Update(p, fail)
    \/ \E p \in PadIds, fail \in SUBSET Sendable : Reset(p, fail)
    \/ DataRequest(Watcher)

\* a running server with one bound pad: subscriptions over time
SubInit ==
    /\ server_instance = TRUE
    /\ server_refcount = 1
    /\ running = TRUE
    /\ sock = TRUE
    /\ port = BASE_PORT
    /\ slot_connected = ConnectedAfter(FreshSlotConnected, 0, TRUE)
    /\ slot_packet_counter = FreshCounters
    /\ slot_states = FreshStates
    /\ subscribers = << >>
    /\ pads = [p \in PadIds |->
                 IF p = 1 THEN [st |-> "open", slot |-> 0, state |-> Neutral]
                 ELSE NoPad]
    /\ now = 0
    /\ sent = << >>
    /\ lastOp = NoOp
    /\ lastReq = [c \in Clients |-> NoTime]
    /\ rxLast = FreshCounters

SubNext ==
    \/ \E fail \in SUBSET Sendable : Update(1, fail)
    \/ \E fail \in SUBSET Sendable : Reset(1, fail)
    \/ \E c \in Clients : DataRequest(c)
    \/ Tick

-----------------------------------------------------------------------------
(* Properties of the DSU server *)

SentTo(c) == { i \in DOMAIN sent : sent[i].to = c }

\* the client's latest data request is at most SUBSCRIBER_TTL seconds old
Unexpired(c) ==
    lastReq[c] # NoTime /\ lastReq[c] <= now /\ now <= lastReq[c] + SUBSCRIBER_TTL

\* C1: the refcount equals the number of constructed and not yet closed pads,
\* and a server instance exists and is running exactly when that number is
\* greater than zero.
C1_RefcountMatchesOpenPads ==
    /\ server_refcount = Cardinality(OpenPads)
    /\ (server_instance /\ running) <=> (Cardinality(OpenPads) > 0)

\* C2: the packet numbers a continuously subscribed client receives for a slot
\* are strictly increasing while the server stays running, over update, reset,
\* close and re-creation of the pad bound to the slot.
C2_PacketNumbersIncrease ==
    [][\A i \in DOMAIN sent' :
          (sent'[i].to = Watcher /\ sent'[i].ok /\ rxLast[sent'[i].slot] # 0)
             => sent'[i].pkt > rxLast[sent'[i].slot]]_vars

\* C3: an update_slot call at time u sends its packet to a client exactly when
\* the client's latest data request arrived at t with t <= u <= t + 5 s; a
\* repeated request replaces the expiry by arrival + 5 s without a second
\* entry; an expired client is gone from the map after update_slot.
C3_SubscriberTTL ==
    /\ lastOp.op = "update" =>
          /\ \A c \in Clients : (SentTo(c) # {}) <=> Unexpired(c)
          /\ \A i \in DOMAIN subscribers : subscribers[i].exp >= now
    /\ \A i, j \in DOMAIN subscribers :
          subscribers[i].addr = subscribers[j].addr => i = j
    /\ \A i \in DOMAIN subscribers :
          subscribers[i].exp = lastReq[subscribers[i].addr] + SUBSCRIBER_TTL

\* C3 witness: an update exactly 5 s after one client's request reaches that
\* client, while a client whose request is older has been removed.
C3_Witness ==
    /\ lastOp.op = "update"
    /\ \E c \in Clients :
          /\ lastReq[c] # NoTime /\ now = lastReq[c] + SUBSCRIBER_TTL
          /\ SentTo(c) # {}
    /\ \E c \in Clients :
          /\ lastReq[c] # NoTime /\ now > lastReq[c] + SUBSCRIBER_TTL
          /\ c \notin SubAddrs(subscribers)

\* C4: an update_slot call raises the slot's counter by exactly one, builds one
\* packet carrying the new counter, and hands it to sendto() exactly once for
\* every unexpired subscriber; a failing sendto() neither stops the other
\* sends, nor removes the subscriber, nor propagates.
C4_UpdateSendsOncePerSubscriber ==
    lastOp.op = "update" =>
       /\ slot_packet_counter[lastOp.slot] = lastOp.ctr0 + 1
       /\ lastOp.npkt = 1
       /\ ~lastOp.raised
       /\ \A i \in DOMAIN sent :
             /\ sent[i].slot = lastOp.slot
             /\ sent[i].pkt = lastOp.ctr0 + 1
             /\ Unexpired(sent[i].to)
             /\ sent[i].to \in SubAddrs(subscribers)
       /\ \A c \in Clients : Unexpired(c) => Cardinality(SentTo(c)) = 1

\* C4 witness: two subscribers, the sendto() to the first one fails and the
\* second one is still served.
C4_Witness ==
    /\ lastOp.op = "update"
    /\ Len(sent) = 2
    /\ ~sent[1].ok
    /\ sent[2].ok
    /\ lastOp.ctr0 = 1

-----------------------------------------------------------------------------
(* ConnectionManager (connection_manager.py) *)

\* what the USB stack answers during one connect(): whether find() returns a
\* device, whether the host is macOS, and per later step "ok" or "usberr"
\* (usb.core.USBError raised); hid is whether hid.device().open() succeeds
StepOutcomes == {"ok", "usberr"}

ConnEnvs ==
    [found : BOOLEAN, macos : BOOLEAN, detach : StepOutcomes,
     config : StepOutcomes, claim : StepOutcomes, winit : StepOutcomes,
     wled : StepOutcomes, release : StepOutcomes, hid : BOOLEAN]

EnvAllOk ==
    [found |-> TRUE, macos |-> FALSE, detach |-> "ok", config |-> "ok",
     claim |-> "ok", winit |-> "ok", wled |-> "ok", release |-> "ok",
     hid |-> TRUE]

\* mutant of WriteAborts: a failed report write is ignored like the other steps
WriteNeverAborts(outcome) == FALSE

\* initialize_via_usb: dev.write() is not guarded, its USBError reaches the
\* outer handler, which returns False
WriteAborts(outcome) == outcome # "ok"

\* initialize_via_usb: detach, set_configuration, claim_interface and
\* release_interface sit in try/except USBError: pass
GuardedAborts(outcome) == FALSE

\* ConnectionManager.initialize_via_usb: the steps run, the progress reported
\* and the value returned
initialize_via_usb(e) ==
    IF ~e.found
    THEN [ok |-> FALSE, steps |-> <<"find">>, progress |-> <<10>>]
    ELSE
    LET s2 == <<"find">> \o (IF e.macos THEN <<"detach">> ELSE << >>)
    IN  IF e.macos /\ GuardedAborts(e.detach)
        THEN [ok |-> FALSE, steps |-> s2, progress |-> <<10, 30>>]
        ELSE IF GuardedAborts(e.config)
        THEN [ok |-> FALSE, steps |-> s2 \o <<"config">>, progress |-> <<10, 30>>]
        ELSE IF GuardedAborts(e.claim)
        THEN [ok |-> FALSE, steps |-> s2 \o <<"config", "claim">>,
              progress |-> <<10, 30>>]
        ELSE IF WriteAborts(e.winit)
        THEN [ok |-> FALSE, steps |-> s2 \o <<"config", "claim", "winit">>,
              progress |-> <<10, 30, 50>>]
        ELSE IF WriteAborts(e.wled)
        THEN [ok |-> FALSE,
              steps |-> s2 \o <<"config", "claim", "winit", "wled">>,
              progress |-> <<10, 30, 50, 70>>]
        ELSE IF GuardedAborts(e.release)
        THEN [ok |-> FALSE,
              steps |-> s2 \o <<"config", "claim", "winit", "wled", "release">>,
              progress |-> <<10, 30, 50, 70, 90>>]
        ELSE [ok |-> TRUE,
              steps |-> s2 \o <<"config", "claim", "winit", "wled", "release">>,
              progress |-> <<10, 30, 50, 70, 90>>]

\* ConnectionManager.init_hid_device: the handle held afterwards; the
\* hid.device() object is stored before open() is tried
DeviceAfterHid(e) == IF e.hid THEN "open" ELSE "stale"

\* ConnectionManager.connect: USB initialisation, then the HID open
connect(e) ==
    LET usb == initialize_via_usb(e)
    IN  IF ~usb.ok
        THEN [ret |-> FALSE, steps |-> usb.steps, progress |-> usb.progress,
              device |-> device]
        ELSE [ret |-> e.hid, steps |-> Append(usb.steps, "hid"),
              progress |-> IF e.hid THEN Append(usb.progress, 100)
                           ELSE usb.progress,
              device |-> DeviceAfterHid(e)]

NoCall == [op |-> "none", env |-> EnvAllOk, ret |-> FALSE, steps |-> << >>,
           progress |-> << >>]

\* a caller runs ConnectionManager.connect()
CmConnect(e) ==
    LET r == connect(e)
    IN  /\ UNCHANGED nonConnVars
        /\ device' = r.device
        /\ connCall' = [op |-> "connect", env |-> e, ret |-> r.ret,
                        steps |-> r.steps, progress |-> r.progress]

\* ConnectionManager.disconnect(): close() errors are swallowed
CmDisconnect ==
    /\ UNCHANGED nonConnVars
    /\ device' = "none"
    /\ connCall' = [NoCall EXCEPT !.op = "disconnect"]

ConnInit ==
    /\ device = "none"
    /\ connCall = NoCall

-----------------------------------------------------------------------------
(* GCControllerEnabler (app.py), with InputProcessor and EmulationManager *)

\* the USB stack as the orchestrator runs see it
GuiConnEnvs == { EnvAllOk, [EnvAllOk EXCEPT !.found = FALSE],
                 [EnvAllOk EXCEPT !.hid = FALSE] }

\* what EmulationManager.start(mode) meets
EmuEnvs == {"ok", "raises", "unavailable"}

NoGuiOp == [op |-> "none", connectCalled |-> FALSE, ret |-> FALSE,
            started |-> FALSE, startWhileActive |-> FALSE,
            emuStart |-> FALSE, emuStop |-> FALSE, scheduled |-> FALSE,
            calls |-> <<>>]

\* the orchestrator's fields as one record, threaded through a callback
GuiState ==
    [is_reading |-> is_reading, stop_event |-> stop_event,
     is_emulating |-> is_emulating, flag |-> reconnect_was_emulating,
     timers |-> timers, btn |-> emulate_btn, device |-> device, op |-> NoGuiOp]

\* InputProcessor.start(): clears the stop flag and starts a read worker
InputStart(g) ==
    [g EXCEPT !.is_reading = TRUE, !.stop_event = FALSE,
              !.op.started = TRUE,
              !.op.startWhileActive = g.is_reading]

\* InputProcessor.stop(): sets the stop flag; the read worker exits
InputStop(g) ==
    [g EXCEPT !.is_reading = FALSE, !.stop_event = TRUE,
              !.op.calls = Append(@, "input_proc.stop")]

\* EmulationManager.stop()
EmuStop(g) ==
    [g EXCEPT !.is_emulating = FALSE, !.op.calls = Append(@, "emu_mgr.stop")]

\* ConnectionManager.disconnect(), called by the orchestrator
ConnDisconnect(g) ==
    [g EXCEPT !.device = "none", !.op.calls = Append(@, "conn_mgr.disconnect")]

\* GCControllerEnabler.toggle_emulation; op.emuStart records that the start
\* branch was taken, whether or not the backend then came up
toggle_emulation(g, emu) ==
    IF g.is_emulating
    THEN [EmuStop(g) EXCEPT !.op.emuStop = TRUE]
    ELSE [g EXCEPT !.is_emulating = (emu = "ok"), !.op.emuStart = TRUE]

\* a disconnect_controller that closes the device handle first
disconnect_controllerClosingFirst(g) ==
    [InputStop(EmuStop(ConnDisconnect(g))) EXCEPT !.btn = FALSE]

\* GCControllerEnabler.disconnect_controller
disconnect_controller(g) ==
    [ConnDisconnect(EmuStop(InputStop(g))) EXCEPT !.btn = FALSE]

\* an _attempt_reconnect without its check of the stop flag
ReconnectGuardOff(g) == FALSE

\* GCControllerEnabler._attempt_reconnect: the check that aborts the attempt
ReconnectGuard(g) == g.stop_event

\* GCControllerEnabler._attempt_reconnect
attempt_reconnect(g, e, emu) ==
    IF ReconnectGuard(g) THEN g
    ELSE
    LET r  == connect(e)
        dv == IF initialize_via_usb(e).ok THEN r.device ELSE g.device
        g1 == [g EXCEPT !.device = dv, !.op.connectCalled = TRUE, !.op.ret = r.ret]
    IN  IF r.ret
        THEN LET g2 == [InputStart(g1) EXCEPT !.btn = TRUE]
             IN  IF g2.flag
                 THEN toggle_emulation([g2 EXCEPT !.flag = FALSE], emu)
                 ELSE g2
        ELSE [g1 EXCEPT !.timers = g.timers + 1, !.op.scheduled = TRUE]

\* GCControllerEnabler._on_unexpected_disconnect
on_unexpected_disconnect(g, e, emu) ==
    LET c1 == IF g.device # "none" THEN <<"device.close">> ELSE <<>>
        c2 == IF g.is_emulating THEN <<"emu_mgr.stop">> ELSE <<>>
        g1 == [g EXCEPT !.device = "none", !.is_emulating = FALSE,
                        !.btn = FALSE, !.flag = g.is_emulating,
                        !.op.calls = c1 \o c2]
    IN  attempt_reconnect(g1, e, emu)

\* GCControllerEnabler.connect_controller
connect_controller(g, e) ==
    IF g.is_reading THEN disconnect_controller(g)
    ELSE
    LET r  == connect(e)
        dv == IF initialize_via_usb(e).ok THEN r.device ELSE g.device
        g1 == [g EXCEPT !.device = dv, !.op.connectCalled = TRUE, !.op.ret = r.ret]
    IN  IF r.ret THEN [InputStart(g1) EXCEPT !.btn = TRUE] ELSE g1

\* the orchestrator's fields after a callback that ended in record g
GuiBecomes(g, name) ==
    /\ is_reading' = g.is_reading
    /\ stop_event' = g.stop_event
    /\ is_emulating' = g.is_emulating
    /\ reconnect_was_emulating' = g.flag
    /\ timers' = g.timers
    /\ emulate_btn' = g.btn
    /\ device' = g.device
    /\ guiOp' = [g.op EXCEPT !.op = name]

\* the user clicks the Connect / Disconnect button
ClickConnect(e) ==
    /\ ~destroyed
    /\ UNCHANGED nonGuiVars
    /\ GuiBecomes(connect_controller(GuiState, e),
                  IF is_reading THEN "disconnect" ELSE "connect")
    /\ UNCHANGED <<pendingDisc, destroyed, discWasEmu, connCall>>

\* the user clicks the (enabled) emulate button
ClickEmulate(emu) ==
    /\ ~destroyed
    /\ UNCHANGED nonGuiVars
    /\ emulate_btn
    /\ GuiBecomes(toggle_emulation(GuiState, emu), "toggle")
    /\ UNCHANGED <<pendingDisc, destroyed, discWasEmu, connCall>>

\* the read worker meets a device-gone error: it exits and posts
\* on_disconnect, i.e. root.after(0, _on_unexpected_disconnect)
DeviceGone ==
    /\ ~destroyed
    /\ UNCHANGED nonGuiVars
    /\ is_reading
    /\ pendingDisc < MaxPending
    /\ is_reading' = FALSE
    /\ pendingDisc' = pendingDisc + 1
    /\ guiOp' = [NoGuiOp EXCEPT !.op = "device_gone"]
    /\ UNCHANGED <<stop_event, is_emulating, reconnect_was_emulating, timers,
                   emulate_btn, destroyed, discWasEmu, connVars>>

\* the event loop runs a posted _on_unexpected_disconnect
HandleDisconnect(e, emu) ==
    /\ ~destroyed
    /\ UNCHANGED nonGuiVars
    /\ pendingDisc > 0
    /\ timers < MaxTimers
    /\ pendingDisc' = pendingDisc - 1
    /\ discWasEmu' = is_emulating
    /\ GuiBecomes(on_unexpected_disconnect(GuiState, e, emu), "on_disconnect")
    /\ UNCHANGED <<destroyed, connCall>>

\* a reconnect timer fires: _attempt_reconnect
TimerFire(e, emu) ==
    /\ ~destroyed
    /\ UNCHANGED nonGuiVars
    /\ timers > 0
    /\ GuiBecomes(attempt_reconnect([GuiState EXCEPT !.timers = timers - 1],
                                    e, emu), "reconnect")
    /\ UNCHANGED <<pendingDisc, destroyed, discWasEmu, connCall>>

\* GCControllerEnabler.on_closing
OnClosing ==
    /\ ~destroyed
    /\ UNCHANGED nonGuiVars
    /\ GuiBecomes(disconnect_controller(GuiState), "closing")
    /\ destroyed' = TRUE
    /\ UNCHANGED <<pendingDisc, discWasEmu, connCall>>

GuiInit ==
    /\ is_reading = FALSE
    /\ stop_event = FALSE
    /\ is_emulating = FALSE
    /\ reconnect_was_emulating = FALSE
    /\ timers = 0
    /\ pendingDisc = 0
    /\ emulate_btn = FALSE
    /\ destroyed = FALSE
    /\ guiOp = NoGuiOp
    /\ discWasEmu = FALSE

GuiNext ==
    \/ \E e \in GuiConnEnvs : ClickConnect(e)
    \/ \E emu \in EmuEnvs : ClickEmulate(emu)
    \/ DeviceGone
    \/ \E e \in GuiConnEnvs, emu \in EmuEnvs : HandleDisconnect(e, emu)
    \/ \E e \in GuiConnEnvs, emu \in EmuEnvs : TimerFire(e, emu)
    \/ OnClosing

(***************************************************************************)
(* The settings store (settings_manager.py)                                *)
(***************************************************************************)

\* Python and JSON values: ty is the Python type, v the text of a scalar,
\* l the items of a list or tuple, m the entries of a dict
EmptyDict == [k \in {} |-> ""]

Str(s) == [ty |-> "str", v |-> s, l |-> <<>>, m |-> EmptyDict]
Num(s) == [ty |-> "int", v |-> s, l |-> <<>>, m |-> EmptyDict]
Bool(s) == [ty |-> "bool", v |-> s, l |-> <<>>, m |-> EmptyDict]
List(l) == [ty |-> "list", v |-> "", l |-> l, m |-> EmptyDict]
Tuple(l) == [ty |-> "tuple", v |-> "", l |-> l, m |-> EmptyDict]
Dict(m) == [ty |-> "dict", v |-> "", l |-> <<>>, m |-> m]
\* a value json cannot serialise (a set, a widget variable)
Object == [ty |-> "object", v |-> "", l |-> <<>>, m |-> EmptyDict]

\* dict.update, dict.pop and dict.setdefault
DictUpdate(d, e) == e @@ d
DictPop(d, ks) == [k \in (DOMAIN d) \ ks |-> d[k]]
DictSetDefault(d, e) == d @@ e

\* str.upper on the addresses of the model
Upper(s) ==
    CASE s = "aa:01" -> "AA:01"
      [] s = "bb:02" -> "BB:02"
      [] OTHER -> s

\* _GLOBAL_KEYS
GLOBAL_KEYS == {"auto_connect", "emulation_mode", "trigger_bump_100_percent",
                "minimize_to_tray", "known_ble_devices"}

\* controller_constants.BLE_DEVICE_CAL_KEYS
BLE_DEVICE_CAL_KEYS == {"stick_left_center_x", "stick_left_octagon"}

\* controller_constants.DEFAULT_CALIBRATION
DEFAULT_CALIBRATION ==
    [k \in {"stick_left_center_x", "trigger_left_bump",
            "trigger_bump_100_percent", "auto_connect", "emulation_mode"} |->
        CASE k = "stick_left_center_x" -> Num("128")
          [] k = "trigger_left_bump" -> Num("190")
          [] k = "trigger_bump_100_percent" -> Bool("false")
          [] k = "auto_connect" -> Bool("false")
          [] OTHER -> Str("xbox360")]

CalSlots == 0 .. (MAX_SLOTS - 1)

\* str(i), the key of slot i in the document
SlotName(i) == ToString(i)

SlotNames == { SlotName(i) : i \in CalSlots }

\* the calibrations the application constructs before load()
DefaultCalibrations == [i \in CalSlots |-> DEFAULT_CALIBRATION]

\* The settings file.  form: "absent", "malformed" (not JSON), "empty"
\* (opened for writing, nothing written), "partial" (a write that stopped
\* part-way) or "json"; a JSON document has its top-level entries in top
\* (the 'version' entry apart), and its 'global' and 'slots' objects; bad
\* names the entries that hold a number where an object is expected
\* ("global", or the name of a slot)
NoDoc(form) ==
    [form |-> form, hasVersion |-> FALSE, version |-> 1, top |-> EmptyDict,
     global |-> EmptyDict, slots |-> EmptyDict, bad |-> {}]

JsonDoc(hasVersion, version, top, global, slots) ==
    [form |-> "json", hasVersion |-> hasVersion, version |-> version,
     top |-> top, global |-> global, slots |-> slots, bad |-> {}]

WithBad(f, bad) == [f EXCEPT !.bad = bad]

\* json.dump of one value: a tuple is written as a list
JsonLeaf(val) == IF val.ty = "tuple" THEN List(val.l) ELSE val

JsonDict(d) == [k \in DOMAIN d |-> JsonLeaf(d[k])]

JsonValue(val) ==
    IF val.ty = "dict"
    THEN Dict([a \in DOMAIN val.m |-> JsonDict(val.m[a])])
    ELSE JsonLeaf(val)

JsonEntries(d) == [k \in DOMAIN d |-> JsonValue(d[k])]

\* json.dump raises TypeError on a value it cannot serialise
Serialisable(val) ==
    /\ val.ty # "object"
    /\ val.ty = "dict" =>
           \A a \in DOMAIN val.m : \A k \in DOMAIN val.m[a] :
               val.m[a][k].ty # "object"

DictSerialisable(d) == \A k \in DOMAIN d : Serialisable(d[k])

DocSerialisable(doc) ==
    /\ DictSerialisable(doc.global)
    /\ \A n \in DOMAIN doc.slots : DictSerialisable(doc.slots[n])

\* the text json.dump writes, as the document json.load reads back
Written(doc) ==
    [doc EXCEPT !.global = JsonEntries(@),
                !.slots = [n \in DOMAIN @ |-> JsonEntries(@[n])]]

\* SettingsManager._load_v1: key_migration, in the order of the dict
key_migration ==
    << <<"left_base", "trigger_left_base">>,
       <<"left_bump", "trigger_left_bump">>,
       <<"left_max", "trigger_left_max">>,
       <<"right_base", "trigger_right_base">>,
       <<"right_bump", "trigger_right_bump">>,
       <<"right_max", "trigger_right_max">>,
       <<"bump_100_percent", "trigger_bump_100_percent">> >>

\* the loop over key_migration.items(), its first n entries done
RECURSIVE MigrateKeys(_, _)
MigrateKeys(saved, n) ==
    IF n = 0 THEN saved
    ELSE LET s == MigrateKeys(saved, n - 1)
             old_key == key_migration[n][1]
             new_key == key_migration[n][2]
         IN  IF old_key \in DOMAIN s /\ new_key \notin DOMAIN s
             THEN DictPop(s, {old_key}) @@ (new_key :> s[old_key])
             ELSE IF old_key \in DOMAIN s
                  THEN DictPop(s, {old_key})
                  ELSE s

\* keys _load_v1 strips from the flat document
RemovedV1 == {"preferred_ble_address", "connection_mode", "known_ble_addresses"}

\* keys _load_v2 strips from every slot section
RemovedV2 == {"preferred_ble_address", "connection_mode"}

\* the dict json.load returns for a flat document
SavedFlat(f) ==
    IF f.hasVersion THEN f.top @@ ("version" :> Num(ToString(f.version)))
    ELSE f.top

\* _load_v1 without the loop over key_migration
load_v1_unmigrated(saved, cals) ==
    [cals EXCEPT ![0] = DictUpdate(@, DictPop(saved, RemovedV1))]

load_v1(saved, cals) ==
    [cals EXCEPT ![0] =
        DictUpdate(@, DictPop(MigrateKeys(saved, Len(key_migration)), RemovedV1))]

\* slots_data.get(str(i), {})
SlotSection(slots_data, i) ==
    IF SlotName(i) \in DOMAIN slots_data THEN slots_data[SlotName(i)]
    ELSE EmptyDict

\* the global keys present in the global section
GlobalPresent(global_settings) ==
    [k \in GLOBAL_KEYS \cap DOMAIN global_settings |-> global_settings[k]]

\* the closing loop left out: slot 0 keeps what its own section said
GlobalNotOverriding(cal, global_settings) == cal

\* the closing loops of _load_v2 and _load_v3: every slot section updates
\* its calibration (slot 0's with the global keys it lacks), then the global
\* section overrides slot 0
GlobalOverrides(cal, global_settings) ==
    DictUpdate(cal, GlobalPresent(global_settings))

\* the first slot whose entry is not an object: setdefault (slot 0) or
\* dict.update raises there; MAX_SLOTS when every entry is an object
FirstBadSlot(bad) ==
    IF \E i \in CalSlots : SlotName(i) \in bad
    THEN CHOOSE i \in CalSlots :
             /\ SlotName(i) \in bad
             /\ \A j \in CalSlots : SlotName(j) \in bad => i <= j
    ELSE MAX_SLOTS

\* the loop stops at the first bad slot: the slots before it are updated,
\* the others and the closing override of slot 0 are not reached
ApplySections(global_settings, slots_data, bad, cals) ==
    [i \in CalSlots |->
        LET slot_data == SlotSection(slots_data, i)
        IN  IF i >= FirstBadSlot(bad) THEN cals[i]
            ELSE IF i = 0
            THEN LET updated == DictUpdate(cals[i],
                         DictSetDefault(slot_data, GlobalPresent(global_settings)))
                 IN  IF FirstBadSlot(bad) = MAX_SLOTS
                     THEN GlobalOverrides(updated, global_settings)
                     ELSE updated
            ELSE DictUpdate(cals[i], slot_data)]

\* _load_v3: 'key in global_settings' raises for a global entry that is a
\* number, at slot 0 and before any update
load_v3(f, cals) ==
    IF "global" \in f.bad THEN cals
    ELSE ApplySections(f.global, f.slots, f.bad, cals)

\* _load_v3 raises
RaisesV3(f) == f.bad # {}

\* _load_v2: a preferred_ble_address that is not a string has no upper()
BadAddress(slots_data) ==
    \E n \in DOMAIN slots_data :
        /\ "preferred_ble_address" \in DOMAIN slots_data[n]
        /\ slots_data[n]["preferred_ble_address"].ty # "str"

\* _load_v2 raises: global_settings.pop and slot_data.pop need objects, the
\* address a string; all of it in the first loop, before any update
RaisesV2(f) == f.bad # {} \/ BadAddress(f.slots)

\* the first loop with "if addr:" alone: a slot replaces the entry of its
\* address
RECURSIVE KnownFromSlotsOverwriting(_, _, _)
KnownFromSlotsOverwriting(slots_data, known_devices, n) ==
    IF n = 0 THEN known_devices
    ELSE LET known == KnownFromSlotsOverwriting(slots_data, known_devices,
                                                n - 1)
             slot_data == SlotSection(slots_data, n - 1)
             addr == IF "preferred_ble_address" \in DOMAIN slot_data
                     THEN Upper(slot_data["preferred_ble_address"].v)
                     ELSE ""
             dev_cal == [k \in BLE_DEVICE_CAL_KEYS \cap DOMAIN slot_data |->
                            slot_data[k]]
         IN  IF addr # "" THEN (addr :> dev_cal) @@ known ELSE known

\* _load_v2, first loop: a device entry for every slot with a preferred
\* address not yet known, slots 0 .. n-1 done
RECURSIVE KnownFromSlots(_, _, _)
KnownFromSlots(slots_data, known_devices, n) ==
    IF n = 0 THEN known_devices
    ELSE LET known == KnownFromSlots(slots_data, known_devices, n - 1)
             slot_data == SlotSection(slots_data, n - 1)
             addr == IF "preferred_ble_address" \in DOMAIN slot_data
                     THEN Upper(slot_data["preferred_ble_address"].v)
                     ELSE ""
             dev_cal == [k \in BLE_DEVICE_CAL_KEYS \cap DOMAIN slot_data |->
                            slot_data[k]]
         IN  IF addr # "" /\ addr \notin DOMAIN known
             THEN known @@ (addr :> dev_cal)
             ELSE known

\* _load_v2, second loop: the old known_ble_addresses list, n entries done
RECURSIVE KnownFromList(_, _, _)
KnownFromList(old_known, known_devices, n) ==
    IF n = 0 THEN known_devices
    ELSE LET known == KnownFromList(old_known, known_devices, n - 1)
             addr_upper == Upper(old_known[n])
         IN  IF addr_upper \notin DOMAIN known
             THEN known @@ (addr_upper :> EmptyDict)
             ELSE known

load_v2(f, cals) ==
    LET old_known == IF "known_ble_addresses" \in DOMAIN f.global
                     THEN f.global["known_ble_addresses"].l ELSE <<>>
        popped == DictPop(f.global, {"known_ble_addresses"})
        known0 == IF "known_ble_devices" \in DOMAIN popped
                  THEN popped["known_ble_devices"].m ELSE EmptyDict
        known1 == KnownFromSlots(f.slots, known0, MAX_SLOTS)
        known2 == KnownFromList(old_known, known1, Len(old_known))
        global_settings == DictUpdate(popped, "known_ble_devices" :> Dict(known2))
        slots_data == [n \in DOMAIN f.slots |-> DictPop(f.slots[n], RemovedV2)]
    IN  IF RaisesV2(f) THEN cals
        ELSE ApplySections(global_settings, slots_data, {}, cals)

\* saved.get('version', 1)
VersionOf(f) == IF f.hasVersion THEN f.version ELSE 1

\* SettingsManager.load: a missing file returns at once, a file that is not
\* JSON raises inside the try and is reported
load(f, cals) ==
    IF f.form # "json" THEN cals
    ELSE IF VersionOf(f) >= 3 THEN load_v3(f, cals)
    ELSE IF VersionOf(f) >= 2 THEN load_v2(f, cals)
    ELSE load_v1(SavedFlat(f), cals)

\* SettingsManager.load: an exception was raised inside the try (and caught
\* by 'except Exception')
LoadRaises(f) ==
    \/ f.form \notin {"absent", "json"}
    \/ /\ f.form = "json"
       /\ IF VersionOf(f) >= 3 THEN RaisesV3(f)
          ELSE IF VersionOf(f) >= 2 THEN RaisesV2(f)
          ELSE FALSE

\* SettingsManager.save: the document built from the calibrations; global
\* keys are read from slot 0 only
GlobalFromAllSlots(cals) ==
    [k \in GLOBAL_KEYS \cap UNION { DOMAIN cals[i] : i \in CalSlots } |->
        LET i == CHOOSE j \in CalSlots :
                     /\ k \in DOMAIN cals[j]
                     /\ \A h \in CalSlots : h > j => k \notin DOMAIN cals[h]
        IN  cals[i][k]]
GlobalFromSlot0(cals) ==
    [k \in GLOBAL_KEYS \cap DOMAIN cals[0] |-> cals[0][k]]

SlotDict(cal) == DictPop(cal, GLOBAL_KEYS)

SaveOutputV2(cals) ==
    JsonDoc(TRUE, 2, EmptyDict, GlobalFromSlot0(cals),
            [n \in SlotNames |->
                SlotDict(cals[CHOOSE i \in CalSlots : SlotName(i) = n])])
SaveOutput(cals) ==
    JsonDoc(TRUE, 3, EmptyDict, GlobalFromSlot0(cals),
            [n \in SlotNames |->
                SlotDict(cals[CHOOSE i \in CalSlots : SlotName(i) = n])])

\* what the model remembers of the last completed save(): the calibrations
\* it wrote (S), the file load() had read into fresh calibrations to produce
\* them (F, absent when they did not come straight from a load), and whether
\* the application has since restarted ("fresh") and loaded ("reloaded")
NoHist ==
    [stage |-> "idle", S |-> DefaultCalibrations, F |-> NoDoc("absent"),
     edits |-> 0, failed |-> FALSE, loadRaised |-> FALSE]

\* the last save() is no longer followed: S and F are forgotten
Idle(h) == [NoHist EXCEPT !.edits = h.edits, !.failed = h.failed]

\* save(), up to open(self._settings_file, 'w'): the document is built and
\* the file is truncated
SaveOpen ==
    /\ ~saving
    /\ saving' = TRUE
    /\ output' = SaveOutput(slot_calibrations)
    /\ prevFile' = file
    /\ file' = NoDoc("empty")
    /\ hist' = [Idle(hist) EXCEPT !.failed = FALSE]
    /\ UNCHANGED <<slot_calibrations, fresh, loaded>>
    /\ UNCHANGED nonSetVars

\* save(), json.dump(output, f, indent=2): the write completes, or raises
\* (a value that cannot be serialised, an OSError) after part of the text
SaveDump(oserror) ==
    /\ saving
    /\ saving' = FALSE
    /\ IF DocSerialisable(output) /\ ~oserror
       THEN /\ file' = Written(output)
            /\ output' = NoDoc("absent")
            /\ prevFile' = NoDoc("absent")
            /\ hist' = [hist EXCEPT !.stage = "saved", !.S = slot_calibrations,
                                    !.F = loaded]
       ELSE /\ file' = NoDoc("partial")
            /\ hist' = [hist EXCEPT !.failed = TRUE]
            /\ UNCHANGED <<output, prevFile>>
    /\ UNCHANGED <<slot_calibrations, fresh, loaded>>
    /\ UNCHANGED nonSetVars

\* SettingsManager.load(), called once after construction
Load ==
    /\ ~saving
    /\ slot_calibrations' = load(file, slot_calibrations)
    /\ loaded' = IF fresh THEN file ELSE NoDoc("absent")
    /\ fresh' = FALSE
    /\ hist' = [(IF hist.stage = "fresh" THEN [hist EXCEPT !.stage = "reloaded"]
                 ELSE Idle(hist))
                    EXCEPT !.loadRaised = LoadRaises(file)]
    /\ UNCHANGED <<file, saving, output, prevFile>>
    /\ UNCHANGED nonSetVars

\* the application exits (also in the middle of a save) and starts again
\* with default calibrations
Restart ==
    /\ slot_calibrations' = DefaultCalibrations
    /\ fresh' = TRUE
    /\ loaded' = NoDoc("absent")
    /\ saving' = FALSE
    /\ hist' = IF hist.stage = "saved" /\ ~saving
               THEN [hist EXCEPT !.stage = "fresh"]
               ELSE Idle(hist)
    /\ UNCHANGED <<file, output, prevFile>>
    /\ UNCHANGED nonSetVars

\* the running application changes one calibration entry: the settings
\* panel, a finished calibration wizard
Edits ==
    { <<0, "auto_connect", Bool("true")>>,
      <<0, "emulation_mode", Object>>,
      <<0, "stick_left_octagon", Tuple(<<"1.0", "0.0">>)>>,
      <<0, "stick_left_octagon", List(<<"1.0", "0.0">>)>>,
      <<1, "trigger_left_bump", Num("210")>>,
      <<1, "emulation_mode", Str("dsu")>> }

SetCalibration(e) ==
    /\ ~saving
    /\ hist.edits < MaxEdits
    /\ slot_calibrations' =
           [slot_calibrations EXCEPT ![e[1]] = DictUpdate(@, e[2] :> e[3])]
    /\ fresh' = FALSE
    /\ loaded' = NoDoc("absent")
    /\ hist' = [Idle(hist) EXCEPT !.edits = @ + 1]
    /\ UNCHANGED <<file, saving, output, prevFile>>
    /\ UNCHANGED nonSetVars

\* every dict whose entries are taken from a set of <<key, value>> pairs
\* with distinct keys
DictsFrom(pairs) ==
    { [k \in { p[1] : p \in ps } |-> (CHOOSE p \in ps : p[1] = k)[2]] :
        ps \in SUBSET pairs }

\* settings files of the three formats
FlatFiles ==
    { JsonDoc(hv, 1, top, EmptyDict, EmptyDict) :
        hv \in BOOLEAN,
        top \in DictsFrom({ <<"left_bump", Num("180")>>,
                            <<"trigger_left_bump", Num("200")>>,
                            <<"bump_100_percent", Bool("true")>>,
                            <<"trigger_bump_100_percent", Bool("false")>>,
                            <<"connection_mode", Str("ble")>>,
                            <<"auto_connect", Bool("true")>> }) }

GlobalSections ==
    { EmptyDict,
      "auto_connect" :> Bool("true"),
      "known_ble_addresses" :> List(<<"aa:01", "bb:02">>),
      "known_ble_devices" :>
          Dict("AA:01" :> ("stick_left_center_x" :> Num("120"))),
      ("known_ble_devices" :>
           Dict("aa:01" :> ("stick_left_center_x" :> Num("125"))))
          @@ ("emulation_mode" :> Str("dsu")) }

Slot0Sections ==
    { EmptyDict,
      ("preferred_ble_address" :> Str("aa:01"))
          @@ ("stick_left_center_x" :> Num("130")),
      "auto_connect" :> Bool("false"),
      "trigger_left_bump" :> Num("200") }

Slot1Sections ==
    { EmptyDict,
      ("preferred_ble_address" :> Str("AA:01"))
          @@ ("stick_left_center_x" :> Num("140")),
      "auto_connect" :> Bool("true"),
      "connection_mode" :> Str("usb"),
      ("preferred_ble_address" :> Str("bb:02"))
          @@ ("stick_left_octagon" :> List(<<"1.0", "0.0">>))
          @@ ("emulation_mode" :> Str("dolphin_pipe")) }

SlotsOf(s0, s1) ==
    (IF s0 = EmptyDict THEN EmptyDict ELSE SlotName(0) :> s0)
        @@ (IF s1 = EmptyDict THEN EmptyDict ELSE SlotName(1) :> s1)

SlottedFiles ==
    { JsonDoc(TRUE, ver, EmptyDict, g, SlotsOf(s0, s1)) :
        ver \in {2, 3}, g \in GlobalSections,
        s0 \in Slot0Sections, s1 \in Slot1Sections }

\* documents with an entry of the wrong type: a number for 'global', for a
\* slot, or for a preferred address
WrongTypeFiles ==
    { WithBad(JsonDoc(TRUE, ver, EmptyDict, g, SlotName(0) :> s0), bad) :
        ver \in {2, 3}, g \in {EmptyDict, "auto_connect" :> Bool("true")},
        s0 \in {"trigger_left_bump" :> Num("200"),
                "auto_connect" :> Bool("true")},
        bad \in {{"global"}, {SlotName(1)}, {SlotName(2)}} }
        \cup
    { JsonDoc(TRUE, ver, EmptyDict, EmptyDict,
              (SlotName(0) :> ("trigger_left_bump" :> Num("200")))
                  @@ (SlotName(1) :> ("preferred_ble_address" :> Num("7")))) :
        ver \in {2, 3} }

Files ==
    {NoDoc("absent"), NoDoc("malformed")} \cup FlatFiles \cup SlottedFiles
        \cup WrongTypeFiles

SetInit ==
    /\ slot_calibrations = DefaultCalibrations
    /\ file = NoDoc("absent")
    /\ saving = FALSE
    /\ output = NoDoc("absent")
    /\ prevFile = NoDoc("absent")
    /\ fresh = TRUE
    /\ loaded = NoDoc("absent")
    /\ hist = NoHist

\* the application starts beside any settings file
SetInitFiles ==
    /\ slot_calibrations = DefaultCalibrations
    /\ file \in Files
    /\ saving = FALSE
    /\ output = NoDoc("absent")
    /\ prevFile = NoDoc("absent")
    /\ fresh = TRUE
    /\ loaded = NoDoc("absent")
    /\ hist = NoHist

SetNext ==
    \/ Load
    \/ SaveOpen
    \/ \E oserror \in BOOLEAN : SaveDump(oserror)
    \/ Restart
    \/ \E e \in Edits : SetCalibration(e)

(***************************************************************************)
(* DSUGamepad: the stick axes (dsu_server.py)                              *)
(***************************************************************************)

Min(a, b) == IF a < b THEN a ELSE b
Max(a, b) == IF a > b THEN a ELSE b

\* stick values a caller passes: the ends, the centre and their neighbours
StickInputs == {0 - 32767, 0 - 16384, 0 - 1, 0, 1, 16384, 32767}

\* max(0, min(255, (value + 32767) * 255 // 65534))
AxisByte(value) == Max(0, Min(255, ((value + 32767) * 255) \div 65534))

\* DSUServer._make_empty_state: the stick entries
NeutralAxes == [lx |-> 128, ly |-> 128, rx |-> 128, ry |-> 128]

NoStickCall == [op |-> "none", x |-> 0, y |-> 0]

\* DSUGamepad.left_joystick: the Y axis is inverted
left_joystick(x_value, y_value) ==
    /\ axes' = [axes EXCEPT !.lx = AxisByte(x_value),
                            !.ly = AxisByte(0 - y_value)]
    /\ stickCall' = [op |-> "left_joystick", x |-> x_value, y |-> y_value]
    /\ UNCHANGED nonStickVars

\* DSUGamepad.right_joystick
right_joystick(x_value, y_value) ==
    /\ axes' = [axes EXCEPT !.rx = AxisByte(x_value),
                            !.ry = AxisByte(0 - y_value)]
    /\ stickCall' = [op |-> "right_joystick", x |-> x_value, y |-> y_value]
    /\ UNCHANGED nonStickVars

\* DSUGamepad.reset
reset_axes ==
    /\ axes' = NeutralAxes
    /\ stickCall' = [NoStickCall EXCEPT !.op = "reset"]
    /\ UNCHANGED nonStickVars

\* DSUGamepad.__init__: self._state = DSUServer._make_empty_state()
StickInit ==
    /\ axes = NeutralAxes
    /\ stickCall = NoStickCall

StickNext ==
    \/ \E x \in StickInputs, y \in StickInputs : left_joystick(x, y)
    \/ \E x \in StickInputs, y \in StickInputs : right_joystick(x, y)
    \/ reset_axes

(***************************************************************************)
(* DSU packets (dsu_server.py): byte strings as sequences of 0 .. 255      *)
(***************************************************************************)

\* struct.pack('<H' / '<I' / '<Q', n): the width low bytes of n, low first
RECURSIVE LittleEndian(_, _)
LittleEndian(n, width) ==
    IF width = 0 THEN << >>
    ELSE <<n % 256>> \o LittleEndian(n \div 256, width - 1)

\* a ^ b on width-bit integers
RECURSIVE Xor(_, _, _)
Xor(a, b, width) ==
    IF width = 0 THEN 0
    ELSE ((a + b) % 2) + 2 * Xor(a \div 2, b \div 2, width - 1)

\* zlib.crc32: the reflected CRC-32 (polynomial 0xEDB88320), its 32-bit
\* register held as <<high 16 bits, low 16 bits>>.  One shift of the
\* register: right by one bit, xor the polynomial if the bit shifted out is 1
CrcShift(reg) ==
    LET hi == reg[1] \div 2
        lo == (reg[2] \div 2) + 32768 * (reg[1] % 2)
    IN  IF reg[2] % 2 = 1 THEN <<Xor(hi, 60856, 16), Xor(lo, 33568, 16)>>
        ELSE <<hi, lo>>

\* the results of the steps are evaluated before the next step is taken
RECURSIVE CrcShifts(_, _)
CrcShifts(reg, k) ==
    IF k = 0 THEN reg
    ELSE LET next == CrcShift(reg)
         IN  IF next[1] >= 0 THEN CrcShifts(next, k - 1) ELSE next

\* the table of zlib.crc32: entry b is byte b after eight shifts
CrcTable == [b \in 0 .. 255 |-> CrcShifts(<<0, b>>, 8)]

\* one byte into the register: crc = table[(crc ^ b) & 0xFF] ^ (crc >> 8)
CrcByte(reg, b) ==
    LET entry == CrcTable[Xor(reg[2] % 256, b, 8)]
    IN  <<Xor(entry[1], reg[1] \div 256, 16),
          Xor(entry[2], (reg[2] \div 256) + 256 * (reg[1] % 256), 16)>>

\* the bytes data[i .. j] into the register, in order (the range is halved
\* to keep the evaluation shallow)
RECURSIVE CrcBytes(_, _, _, _)
CrcBytes(reg, data, i, j) ==
    IF i > j THEN reg
    ELSE IF i = j THEN CrcByte(reg, data[i])
    ELSE LET mid  == (i + j) \div 2
             left == CrcBytes(reg, data, i, mid)
         IN  IF left[1] >= 0 THEN CrcBytes(left, data, mid + 1, j) ELSE left

\* struct.pack('<I', zlib.crc32(data) & 0xFFFFFFFF)
Crc32Bytes(data) ==
    LET reg == CrcBytes(<<65535, 65535>>, data, 1, Len(data))
    IN  LittleEndian(65535 - reg[2], 2) \o LittleEndian(65535 - reg[1], 2)

DSUS_MAGIC == <<68, 83, 85, 83>>
DSUC_MAGIC == <<68, 83, 85, 67>>
DSU_PROTOCOL_VERSION == 1001
MSG_TYPE_VERSION == 1048576
MSG_TYPE_PORTS == 1048577
MSG_TYPE_DATA == 1048578
MODEL_DS4 == 2
CONN_TYPE_USB == 1
BATTERY_FULL == 5
HEADER_SIZE == 16

Zeros(n) == [i \in 1 .. n |-> 0]

\* _build_header: magic, version, payload length, zeroed CRC, server id
_build_header(msg_type, payload_len, server_id) ==
    DSUS_MAGIC \o LittleEndian(DSU_PROTOCOL_VERSION, 2)
        \o LittleEndian(payload_len, 2) \o Zeros(4)
        \o LittleEndian(server_id, 4)

\* _finalize_crc over the payload alone
_finalize_crc_payload_only(packet) ==
    LET zeroed == SubSeq(packet, 1, 8) \o Zeros(4)
                      \o SubSeq(packet, 13, Len(packet))
        crc    == Crc32Bytes(SubSeq(zeroed, HEADER_SIZE + 1, Len(zeroed)))
    IN  SubSeq(zeroed, 1, 8) \o crc \o SubSeq(zeroed, 13, Len(zeroed))

\* _finalize_crc: bytes 8..11 zeroed, the CRC32 of the whole packet written
\* into them
_finalize_crc(packet) ==
    LET zeroed == SubSeq(packet, 1, 8) \o Zeros(4)
                      \o SubSeq(packet, 13, Len(packet))
        crc    == Crc32Bytes(zeroed)
    IN  SubSeq(zeroed, 1, 8) \o crc \o SubSeq(zeroed, 13, Len(zeroed))

\* _build_version_response (22 bytes)
_build_version_response(server_id) ==
    LET payload == LittleEndian(MSG_TYPE_VERSION, 4)
                       \o LittleEndian(DSU_PROTOCOL_VERSION, 2)
        header  == _build_header(MSG_TYPE_VERSION, Len(payload), server_id)
    IN  _finalize_crc(header \o payload)

\* payload bytes 4..14 of a port-info reply and of a pad-data packet: pad id,
\* state, model, connection type, MAC, battery
SharedResponse(slot, connected) ==
    <<slot % 256, IF connected THEN 2 ELSE 0, MODEL_DS4, CONN_TYPE_USB,
      0, 0, 0, 0, 0, slot % 256, BATTERY_FULL>>

\* _build_port_info (32 bytes)
_build_port_info(server_id, slot, connected) ==
    LET payload == LittleEndian(MSG_TYPE_PORTS, 4)
                       \o SharedResponse(slot, connected) \o <<0>>
        header  == _build_header(MSG_TYPE_PORTS, Len(payload), server_id)
    IN  _finalize_crc(header \o payload)

\* DSUServer._make_empty_state
_make_empty_state ==
    [buttons1 |-> 0, buttons2 |-> 0, ps_button |-> 0, touch_button |-> 0,
     lx |-> 128, ly |-> 128, rx |-> 128, ry |-> 128,
     dpad_left |-> 0, dpad_down |-> 0, dpad_right |-> 0, dpad_up |-> 0,
     square |-> 0, cross |-> 0, circle |-> 0, triangle |-> 0,
     r1 |-> 0, l1 |-> 0, r2 |-> 0, l2 |-> 0,
     l_trigger |-> 0, r_trigger |-> 0]

\* a state with the left stick pushed, cross and d-pad up held and the right
\* trigger half pressed
PressedState ==
    [_make_empty_state EXCEPT !.buttons1 = 16, !.buttons2 = 64, !.lx = 255,
                              !.ly = 127, !.dpad_up = 255, !.cross = 255,
                              !.r_trigger = 130]

\* the state dict that a slot state of the model stands for
StateDict(s) == IF s = Neutral THEN _make_empty_state ELSE PressedState

\* DSUServer._build_data_packet (100 bytes); micros is the clock reading
_build_data_packet(server_id, slot, connected, counter, state, micros) ==
    LET payload == LittleEndian(MSG_TYPE_DATA, 4)
                       \o SharedResponse(slot, connected)
                       \o <<IF connected THEN 1 ELSE 0>>
                       \o LittleEndian(counter, 4)
                       \o <<state.buttons1, state.buttons2, state.ps_button,
                            state.touch_button,
                            state.lx % 256, state.ly % 256,
                            state.rx % 256, state.ry % 256,
                            state.dpad_left, state.dpad_down,
                            state.dpad_right, state.dpad_up,
                            state.square, state.cross, state.circle,
                            state.triangle, state.r1, state.l1,
                            state.r_trigger % 256, state.l_trigger % 256>>
                       \o Zeros(12)
                       \o LittleEndian(micros, 8)
                       \o Zeros(24)
        header  == _build_header(MSG_TYPE_DATA, Len(payload), server_id)
    IN  _finalize_crc(header \o payload)

\* the values the builders are given: server ids (the clock in seconds at
\* construction), packet counters and clock readings in microseconds
ServerIds == {1, 1762340000}
PacketNumbers == (0 .. MaxCounter) \cup {66051}
Micros == {0, MaxTime * 1000000}

NoBuild ==
    [kind |-> "none", server_id |-> 0, slot |-> 0, connected |-> FALSE,
     counter |-> 0, state |-> Neutral, micros |-> 0]

\* the listener's reply to a version request
BuildVersion(id) ==
    /\ built = << >>
    /\ built' = _build_version_response(id)
    /\ builtOf' = [NoBuild EXCEPT !.kind = "version", !.server_id = id]
    /\ UNCHANGED nonPktVars

\* one reply of _handle_port_request
BuildPortInfo(id, slot, connected) ==
    /\ built = << >>
    /\ built' = _build_port_info(id, slot, connected)
    /\ builtOf' = [NoBuild EXCEPT !.kind = "port_info", !.server_id = id,
                                   !.slot = slot, !.connected = connected]
    /\ UNCHANGED nonPktVars

\* the packet of _send_data_to_subscribers
BuildData(id, slot, connected, counter, state, micros) ==
    /\ built = << >>
    /\ built' = _build_data_packet(id, slot, connected, counter,
                                    StateDict(state), micros)
    /\ builtOf' = [kind |-> "data", server_id |-> id, slot |-> slot,
                    connected |-> connected, counter |-> counter,
                    state |-> state, micros |-> micros]
    /\ UNCHANGED nonPktVars

\* sock.sendto(packet, addr): the packet leaves as it is
SendPacket ==
    /\ built # << >>
    /\ built' = << >>
    /\ builtOf' = NoBuild
    /\ UNCHANGED nonPktVars

PktInit ==
    /\ built = << >>
    /\ builtOf = NoBuild

PktNext ==
    \/ \E id \in ServerIds : BuildVersion(id)
    \/ \E id \in ServerIds, slot \in Slots, connected \in BOOLEAN :
        BuildPortInfo(id, slot, connected)
    \/ \E id \in ServerIds, slot \in Slots, connected \in BOOLEAN,
          counter \in PacketNumbers, state \in {Neutral, Dirty},
          micros \in Micros :
        BuildData(id, slot, connected, counter, state, micros)
    \/ SendPacket

-----------------------------------------------------------------------------
(* DSUServer: start(), stop() and the listener thread (_listen_loop) *)

MSG_TYPE_REQ_VERSION == 1048576
MSG_TYPE_REQ_PORTS == 1048577
MSG_TYPE_REQ_DATA == 1048578

\* the 16-byte header of a client datagram carrying a payload of len bytes
\* (the server reads neither its version, nor its CRC, nor the client id)
ClientHeader(magic, len) ==
    magic \o LittleEndian(DSU_PROTOCOL_VERSION, 2) \o LittleEndian(len, 2)
          \o Zeros(4) \o <<9, 0, 0, 0>>

VersionRequest == ClientHeader(DSUC_MAGIC, 4) \o LittleEndian(MSG_TYPE_REQ_VERSION, 4)

\* a port-info request announcing n pads and listing the slot bytes listed
PortRequest(n, listed) ==
    ClientHeader(DSUC_MAGIC, 8 + Len(listed))
        \o LittleEndian(MSG_TYPE_REQ_PORTS, 4) \o LittleEndian(n, 4) \o listed

DataRequestBytes ==
    ClientHeader(DSUC_MAGIC, 12) \o LittleEndian(MSG_TYPE_REQ_DATA, 4)
        \o Zeros(8)

\* the datagrams clients send
Datagrams ==
    { SubSeq(VersionRequest, 1, 12),                  \* shorter than a header
      ClientHeader(DSUS_MAGIC, 4) \o LittleEndian(MSG_TYPE_REQ_VERSION, 4),
      ClientHeader(DSUC_MAGIC, 0),                    \* a header and no type
      SubSeq(VersionRequest, 1, 17),                  \* a cut message type
      ClientHeader(DSUC_MAGIC, 4) \o <<7, 0, 16, 0>>, \* an unknown type
      VersionRequest,
      DataRequestBytes,
      SubSeq(PortRequest(1, <<0>>), 1, 22),           \* shorter than 24 bytes
      PortRequest(0, << >>),
      PortRequest(2, <<1, 0>>),
      PortRequest(2, <<1>>),                          \* second byte absent
      PortRequest(1, <<0, 1>>),                       \* more listed than n
      PortRequest(2, <<7, 1>>),                       \* a value outside 0..3
      PortRequest(5, <<3, 0, 1, 1, 0>>),              \* more than four
      ClientHeader(DSUC_MAGIC, 8) \o LittleEndian(MSG_TYPE_REQ_PORTS, 4)
          \o <<0, 1, 0, 0>> \o <<1, 0>> }             \* n = 256

\* min(num_pads, 4), num_pads the unsigned 32-bit integer at offset 20
NumPadsClamped(data) ==
    IF data[22] # 0 \/ data[23] # 0 \/ data[24] # 0 THEN 4
    ELSE Min(data[21], 4)

NoReply == [to |-> 0, kind |-> "none", slot |-> 0, connected |-> FALSE]
NoDatagram == [from |-> 0, data |-> << >>, late |-> FALSE]

\* DSUServer._handle_port_request: the loop over range(min(num_pads, 4)),
\* from index i on; the sendto() calls it makes, in order
RECURSIVE PortSends(_, _, _, _)
PortSends(data, addr, conn, i) ==
    IF i >= NumPadsClamped(data) THEN << >>
    ELSE (IF 24 + i < Len(data) /\ data[25 + i] \in 0 .. 3
          THEN <<[to |-> addr, kind |-> "port_info", slot |-> data[25 + i],
                  connected |-> conn[data[25 + i]]]>>
          ELSE << >>) \o PortSends(data, addr, conn, i + 1)

\* DSUServer._handle_port_request(data, addr)
_handle_port_request(data, addr, conn) ==
    IF Len(data) < 24 THEN << >> ELSE PortSends(data, addr, conn, 0)

\* _listen_loop: struct.unpack_from('<I', data, 16) needs 20 bytes
UnpackRaises(data) == Len(data) > 16 /\ Len(data) < 20

\* _listen_loop with the magic check left out
AcceptedAnyMagic(data) == Len(data) >= HEADER_SIZE

\* _listen_loop: whether the datagram passes the length and magic checks
Accepted(data) == Len(data) >= HEADER_SIZE /\ SubSeq(data, 1, 4) = DSUC_MAGIC

\* _listen_loop: msg_type == t (msg_type is 0 for a datagram of 16 bytes)
MsgTypeIs(data, t) ==
    Len(data) >= 20 /\ SubSeq(data, 17, 20) = LittleEndian(t, 4)

\* _listen_loop: the sendto() calls the handling of one datagram makes
SendsFor(data, addr, conn) ==
    IF ~Accepted(data) \/ UnpackRaises(data) THEN << >>
    ELSE IF MsgTypeIs(data, MSG_TYPE_REQ_VERSION)
         THEN <<[NoReply EXCEPT !.to = addr, !.kind = "version"]>>
    ELSE IF MsgTypeIs(data, MSG_TYPE_REQ_PORTS)
         THEN _handle_port_request(data, addr, conn)
    ELSE << >>

\* the bytes of a reply
Wire(r, id) ==
    IF r.kind = "version" THEN _build_version_response(id)
    ELSE _build_port_info(id, r.slot, r.connected)

\* the ports other processes may hold when start() runs
BindChoices ==
    { {}, {BASE_PORT}, {BASE_PORT + 1}, {BASE_PORT, BASE_PORT + 1, BASE_PORT + 3},
      { BASE_PORT + o : o \in 0 .. (MAX_PORT_ATTEMPTS - 1) } }

NoStart == [called |-> FALSE, busy |-> {}, raised |-> FALSE]

\* DSUServer.start() on a fresh server object
Start(busy) ==
    /\ ~startCall.called /\ ~sock /\ ~running
    /\ LET bound == FirstFree(busy)
       IN  /\ sock' = TRUE
           /\ port' = bound
           /\ running' = (bound # 0)
           /\ thread' = (bound # 0)
           /\ listener' = IF bound # 0 THEN "top" ELSE listener
           /\ startCall' = [called |-> TRUE, busy |-> busy,
                            raised |-> bound = 0]
    /\ replies' = << >>
    /\ handled' = NoDatagram
    /\ UNCHANGED <<inbox, stopCall, lateHandled>>
    /\ UNCHANGED <<server_instance, server_refcount, slot_connected,
                   slot_packet_counter, slot_states, subscribers, pads, now,
                   sent, lastOp, lastReq, rxLast>>
    /\ UNCHANGED nonServerVars

\* DSUServer.set_slot_connected(slot, connected), called by a pad
SetSlotConnected(slot, connected) ==
    /\ startCall.called
    /\ slot_connected[slot] # connected
    /\ slot_connected' = ConnectedAfter(slot_connected, slot, connected)
    /\ slot_states' = StatesAfterConnected(slot_states, slot, connected)
    /\ slot_packet_counter' =
          CountersAfterConnected(slot_packet_counter, slot, connected)
    /\ replies' = << >>
    /\ handled' = NoDatagram
    /\ UNCHANGED <<thread, listener, inbox, startCall, stopCall, lateHandled>>
    /\ UNCHANGED <<server_instance, server_refcount, running, sock, port,
                   subscribers, pads, now, sent, lastOp, lastReq, rxLast>>
    /\ UNCHANGED nonServerVars

\* a datagram from client c reaches the bound, open socket
Arrive(c, data) ==
    /\ sock /\ port # 0
    /\ inbox = << >>
    /\ inbox' = <<[from |-> c, data |-> data,
                   late |-> stopCall \in {"returned", "again"}]>>
    /\ replies' = << >>
    /\ handled' = NoDatagram
    /\ UNCHANGED <<thread, listener, startCall, stopCall, lateHandled>>
    /\ UNCHANGED dsuVars
    /\ UNCHANGED nonServerVars

\* _listen_loop: while self._running
LoopCheck ==
    /\ listener = "top"
    /\ listener' = IF running THEN "recv" ELSE "exited"
    /\ replies' = << >>
    /\ handled' = NoDatagram
    /\ UNCHANGED <<thread, inbox, startCall, stopCall, lateHandled>>
    /\ UNCHANGED dsuVars
    /\ UNCHANGED nonServerVars

\* _listen_loop: recvfrom() ends with socket.timeout
RecvTimeout ==
    /\ listener = "recv" /\ sock
    /\ listener' = "top"
    /\ replies' = << >>
    /\ handled' = NoDatagram
    /\ UNCHANGED <<thread, inbox, startCall, stopCall, lateHandled>>
    /\ UNCHANGED dsuVars
    /\ UNCHANGED nonServerVars

\* _listen_loop: recvfrom() on the socket stop() has closed raises OSError
\* (the loop is left, the flag being down), and self._sock.recvfrom raises
\* AttributeError once stop() has set self._sock to None
RecvClosed(how) ==
    /\ listener = "recv" /\ ~sock
    /\ listener' = IF how = "OSError"
                   THEN (IF running THEN "top" ELSE "exited")
                   ELSE "raised"
    /\ replies' = << >>
    /\ handled' = NoDatagram
    /\ UNCHANGED <<thread, inbox, startCall, stopCall, lateHandled>>
    /\ UNCHANGED dsuVars
    /\ UNCHANGED nonServerVars

\* _listen_loop: recvfrom() returns a datagram and the loop body handles it;
\* failAt = k > 0 makes the k-th sendto() of the handling raise OSError
Handle(failAt) ==
    /\ listener = "recv" /\ sock
    /\ inbox # << >>
    /\ LET d     == Head(inbox)
           sends == SendsFor(d.data, d.from, slot_connected)
           fails == failAt >= 1 /\ failAt <= Len(sends)
       IN  /\ failAt <= Len(sends)
           /\ inbox' = Tail(inbox)
           /\ replies' = IF fails THEN SubSeq(sends, 1, failAt - 1) ELSE sends
           /\ listener' =
                 IF Accepted(d.data) /\ (UnpackRaises(d.data) \/ fails)
                 THEN "raised" ELSE "top"
           /\ subscribers' =
                 IF Accepted(d.data) /\ MsgTypeIs(d.data, MSG_TYPE_REQ_DATA)
                 THEN PutSubscriber(subscribers, d.from, ExpiryFor(now))
                 ELSE subscribers
           /\ lateHandled' = (lateHandled \/ d.late)
           /\ handled' = d
    /\ UNCHANGED <<thread, startCall, stopCall>>
    /\ UNCHANGED <<server_instance, server_refcount, running, sock, port,
                   slot_connected, slot_packet_counter, slot_states, pads, now,
                   sent, lastOp, lastReq, rxLast>>
    /\ UNCHANGED nonServerVars

\* the listener thread has ended, by leaving the loop or by an exception
Terminated == listener \in {"exited", "raised"}

\* stop() leaving the socket open and assigned
SockLeftOpen == TRUE

\* stop(), second part: the socket is closed and cleared
SockAfterStop == FALSE

\* stop(), first part: the flag goes down; with no thread to join the call
\* runs to its end at once ("again": it is a call after one that returned,
\* and the last one followed)
StopBegin ==
    /\ startCall.called
    /\ stopCall \notin {"joining", "again"}
    /\ running' = FALSE
    /\ IF thread
       THEN /\ stopCall' = "joining"
            /\ UNCHANGED <<sock, inbox>>
       ELSE /\ stopCall' = IF stopCall = "none" THEN "returned" ELSE "again"
            /\ sock' = (sock /\ SockAfterStop)
            /\ inbox' = IF sock THEN << >> ELSE inbox
    /\ replies' = << >>
    /\ handled' = NoDatagram
    /\ UNCHANGED <<thread, listener, startCall, lateHandled>>
    /\ UNCHANGED <<server_instance, server_refcount, port, slot_connected,
                   slot_packet_counter, slot_states, subscribers, pads, now,
                   sent, lastOp, lastReq, rxLast>>
    /\ UNCHANGED nonServerVars

\* stop(): self._thread.join(timeout=2.0) returns, the thread having ended
\* or the two seconds being over; then the socket is closed and cleared
StopJoin(timedOut) ==
    /\ stopCall = "joining"
    /\ timedOut = ~Terminated
    /\ thread' = FALSE
    /\ sock' = (sock /\ SockAfterStop)
    /\ inbox' = << >>
    /\ stopCall' = "returned"
    /\ replies' = << >>
    /\ handled' = NoDatagram
    /\ UNCHANGED <<listener, startCall, lateHandled>>
    /\ UNCHANGED <<server_instance, server_refcount, running, port,
                   slot_connected, slot_packet_counter, slot_states,
                   subscribers, pads, now, sent, lastOp, lastReq, rxLast>>
    /\ UNCHANGED nonServerVars

LsnInit ==
    /\ thread = FALSE
    /\ listener = "unstarted"
    /\ inbox = << >>
    /\ replies = << >>
    /\ handled = NoDatagram
    /\ startCall = NoStart
    /\ stopCall = "none"
    /\ lateHandled = FALSE

\* the steps of the listener thread
ListenerStep ==
    \/ LoopCheck
    \/ RecvTimeout
    \/ \E how \in {"OSError", "AttributeError"} : RecvClosed(how)
    \/ \E failAt \in 0 .. 2 : Handle(failAt)

LsnNext ==
    \/ \E busy \in BindChoices : Start(busy)
    \/ \E slot \in PadSlots, connected \in BOOLEAN :
          SetSlotConnected(slot, connected)
    \/ \E c \in Clients, data \in Datagrams : Arrive(c, data)
    \/ LoopCheck
    \/ RecvTimeout
    \/ \E how \in {"OSError", "AttributeError"} : RecvClosed(how)
    \/ \E failAt \in 0 .. 2 : Handle(failAt)
    \/ StopBegin
    \/ \E timedOut \in BOOLEAN : StopJoin(timedOut)

-----------------------------------------------------------------------------
(* tools/ble_bumble_connect.py: main() *)

\* the command-line switches main() looks for in sys.argv
Flags == {"--scan", "--no-scan", "--no-pair", "--no-smp", "--no-encrypt"}

\* the fixed ATT handles
H_SVC1_ENABLE == 5
H_INPUT_REPORT == 10
H_INPUT_CCCD == 11
H_CMD_WRITE == 20
H_CMD_RESPONSE == 26
H_CMD_RESP_CCCD == 27

\* one operation main() has carried out on the link
Op(op, handle, data) == [op |-> op, handle |-> handle, data |-> data]

\* write_handle: True when the GATT write went through, False (after a
\* printed message) when it raised
write_handle(ok) == IF ok THEN "ok" ELSE "failed"

\* wait_cmd_response: the queued response, or None when the timeout is over
wait_cmd_response(resp) == IF resp = "timeout" THEN "None" ELSE resp

\* step 6: what became of the subscription to handle 0x000A and of the write
\* to the input CCCD
NoOutcomes == [subscribe |-> "none", inputCccd |-> "none"]

\* if disconnected.is_set(): return
IfConnected(next) == IF disconnected THEN "returned" ELSE next

\* a response wait that gives up the whole sequence when nothing arrived
AfterWaitAbortingOnTimeout(resp, next) ==
    IF wait_cmd_response(resp) = "None" THEN "returned" ELSE IfConnected(next)

\* resp = await wait_cmd_response(...); a message is printed for either
\* outcome; if disconnected.is_set(): return
AfterWait(resp, next) == IfConnected(next)

\* the steps that write one command to handle 0x0014 and wait for its
\* response, with the command written, the state of the wait and the step
\* that follows
CmdSteps == {"step3", "step4a", "step4b", "step4c", "step4d", "step4e"}

CmdOf ==
    [step3 |-> "spi_device_info", step4a |-> "pair_step1",
     step4b |-> "PAIR_STEP2", step4c |-> "PAIR_STEP3",
     step4d |-> "PAIR_STEP4", step4e |-> "spi_pairing_data"]

WaitOf ==
    [step3 |-> "step3_response", step4a |-> "step4a_response",
     step4b |-> "step4b_response", step4c |-> "step4c_response",
     step4d |-> "step4d_response", step4e |-> "step4e_response"]

StepOfWait(pc) == CHOOSE s \in CmdSteps : WaitOf[s] = pc

\* after step 3 the pairing handshake, or with --no-pair step 4f at once
AfterStep(step) ==
    CASE step = "step3" ->
             IF "--no-pair" \in argv THEN "step4f" ELSE "step4a"
      [] step = "step4a" -> "step4b"
      [] step = "step4b" -> "step4c"
      [] step = "step4c" -> "step4d"
      [] step = "step4d" -> "step4e"
      [] step = "step4e" -> "step4f"

\* bytes(reversed(ltk))
RECURSIVE Reversed(_)
Reversed(s) ==
    IF s = << >> THEN << >> ELSE Reversed(Tail(s)) \o <<Head(s)>>

\* what the pairing block can hold: a long-term key (shortened to two bytes,
\* one of them its own reverse), an EDIV and a Rand
ZeroRand == <<0, 0, 0, 0, 0, 0, 0, 0>>
SomeRand == <<1, 0, 0, 0, 0, 0, 0, 0>>

PairingKey(ltk, ediv, rand) == [ltk |-> ltk, ediv |-> ediv, rand |-> rand]

PairingKeys ==
    {PairingKey(<<1, 2>>, 4660, SomeRand), PairingKey(<<1, 2>>, 0, SomeRand),
     PairingKey(<<1, 2>>, 0, ZeroRand), PairingKey(<<7, 7>>, 0, ZeroRand)}

Attempt(label, ediv, rand, ltk) ==
    [label |-> label, ediv |-> ediv, rand |-> rand, ltk |-> ltk]

\* the list without the first strategy whatever EDIV and Rand are
AttemptsWithoutSpi(ediv, rand, ltk) ==
    <<Attempt("EDIV=0 Rand=0", 0, ZeroRand, ltk),
      Attempt("Reversed LTK", 0, ZeroRand, Reversed(ltk))>>

\* attempts = [...]; if ediv_value == 0 and rand_bytes == bytes(8):
\* attempts = attempts[1:]
Attempts(ediv, rand, ltk) ==
    LET all == <<Attempt("SPI EDIV+Rand", ediv, rand, ltk),
                 Attempt("EDIV=0 Rand=0", 0, ZeroRand, ltk),
                 Attempt("Reversed LTK", 0, ZeroRand, Reversed(ltk))>>
    IN  IF ediv = 0 /\ rand = ZeroRand THEN Tail(all) ELSE all

\* main() is past device.connect() and has not ended
Connected == blePc \notin {"start", "connect", "returned", "raised"}

\* the connection's "disconnection" event
Disconnection ==
    /\ ~disconnected
    /\ Connected
    /\ disconnected' = TRUE
    /\ UNCHANGED <<blePc, bleOut, argv, scan, is_encrypted, keyVars,
                   attempts, tried, bleLog, timeouts, cmd_resp_cccd>>
    /\ UNCHANGED nonBleVars

\* on_security_request: the controller asks for security and connection.pair()
\* is awaited in a task of its own; a failure is printed and changes nothing
SecurityRequest(ok) ==
    /\ Connected
    /\ ~disconnected
    /\ ~is_encrypted
    /\ is_encrypted' = ok
    /\ UNCHANGED <<blePc, disconnected, bleOut, argv, scan, keyVars,
                   attempts, tried, bleLog, timeouts, cmd_resp_cccd>>
    /\ UNCHANGED nonBleVars

\* if not skip_scan: if not await scan_for_controller(device): return;
\* if scan_only: return.  scan_for_controller waits once, up to 10 s, for an
\* advertisement of the target
Scan(found) ==
    /\ blePc = "start"
    /\ IF "--no-scan" \in argv
       THEN /\ blePc' = "connect"
            /\ UNCHANGED scan
       ELSE /\ scan' = IF found THEN "found" ELSE "timeout"
            /\ blePc' = IF found /\ "--scan" \notin argv
                        THEN "connect" ELSE "returned"
    /\ UNCHANGED <<disconnected, bleOut, argv, is_encrypted, keyVars,
                   attempts, tried, bleLog, timeouts, cmd_resp_cccd>>
    /\ UNCHANGED nonBleVars

\* connection = await device.connect(...); except Exception: return
Connect(ok) ==
    /\ blePc = "connect"
    /\ blePc' = IF ok THEN "smp" ELSE "returned"
    /\ UNCHANGED <<disconnected, bleOut, argv, scan, is_encrypted, keyVars,
                   attempts, tried, bleLog, timeouts, cmd_resp_cccd>>
    /\ UNCHANGED nonBleVars

\* if not skip_smp: await connection.pair(), a failure printed;
\* if disconnected.is_set(): return
SmpPairing(outcome) ==
    /\ blePc = "smp"
    /\ IF "--no-smp" \in argv
       THEN UNCHANGED <<is_encrypted, bleLog>>
       ELSE /\ is_encrypted' = (is_encrypted \/ outcome = "encrypted")
            /\ bleLog' = Append(bleLog, Op("pair", 0, ""))
    /\ blePc' = IfConnected("mtu")
    /\ UNCHANGED <<disconnected, bleOut, argv, scan, keyVars, attempts,
                   tried, timeouts, cmd_resp_cccd>>
    /\ UNCHANGED nonBleVars

\* mtu = await peer.request_mtu(512), a failure printed;
\* if disconnected.is_set(): return
MtuExchange(ok) ==
    /\ blePc = "mtu"
    /\ bleLog' = Append(bleLog, Op("request_mtu", 0, "512"))
    /\ blePc' = IfConnected("discover")
    /\ UNCHANGED <<disconnected, bleOut, argv, scan, is_encrypted, keyVars,
                   attempts, tried, timeouts, cmd_resp_cccd>>
    /\ UNCHANGED nonBleVars

\* await peer.discover_services() and the discovery of characteristics and
\* descriptors, none of them in a try; if disconnected.is_set(): return
Discover(ok) ==
    /\ blePc = "discover"
    /\ blePc' = IF ok THEN IfConnected("step1") ELSE "raised"
    /\ UNCHANGED <<disconnected, bleOut, argv, scan, is_encrypted, keyVars,
                   attempts, tried, bleLog, timeouts, cmd_resp_cccd>>
    /\ UNCHANGED nonBleVars

\* step 1: await write_handle(peer, H_SVC1_ENABLE, 01 00), the result dropped;
\* if disconnected.is_set(): return
EnableService(ok) ==
    /\ blePc = "step1"
    /\ bleLog' = Append(bleLog, Op("write", H_SVC1_ENABLE, "0100"))
    /\ blePc' = IfConnected("step2")
    /\ UNCHANGED <<disconnected, bleOut, argv, scan, is_encrypted, keyVars,
                   attempts, tried, timeouts, cmd_resp_cccd>>
    /\ UNCHANGED nonBleVars

\* step 2: await write_handle(peer, H_CMD_RESP_CCCD, 01 00), the result
\* dropped
EnableCmdRespCccd(ok) ==
    /\ blePc = "step2"
    /\ bleLog' = Append(bleLog, Op("write", H_CMD_RESP_CCCD, "0100"))
    /\ cmd_resp_cccd' = IF ok THEN "enabled" ELSE cmd_resp_cccd
    /\ blePc' = "step2_subscribe"
    /\ UNCHANGED <<disconnected, bleOut, argv, scan, is_encrypted, keyVars,
                   attempts, tried, timeouts>>
    /\ UNCHANGED nonBleVars

\* step 2: char.subscribe(on_cmd_response) for the characteristic of handle
\* 0x001A when discovery listed one, a failure printed;
\* if disconnected.is_set(): return
SubscribeCmdResponse(outcome) ==
    /\ blePc = "step2_subscribe"
    /\ bleLog' = IF outcome = "absent" THEN bleLog
                 ELSE Append(bleLog, Op("subscribe", H_CMD_RESPONSE, ""))
    /\ blePc' = IfConnected("step3")
    /\ UNCHANGED <<disconnected, bleOut, argv, scan, is_encrypted, keyVars,
                   attempts, tried, timeouts, cmd_resp_cccd>>
    /\ UNCHANGED nonBleVars

\* steps 3 and 4a to 4e: await write_handle(peer, H_CMD_WRITE, cmd)
WriteCommand(ok) ==
    /\ blePc \in CmdSteps
    /\ bleLog' = Append(bleLog, Op("write", H_CMD_WRITE, CmdOf[blePc]))
    /\ blePc' = WaitOf[blePc]
    /\ UNCHANGED <<disconnected, bleOut, argv, scan, is_encrypted, keyVars,
                   attempts, tried, timeouts, cmd_resp_cccd>>
    /\ UNCHANGED nonBleVars

\* steps 3 and 4a to 4d: resp = await wait_cmd_response(timeout=3.0)
WaitResponse(resp) ==
    /\ blePc \in {WaitOf[s] : s \in CmdSteps \ {"step4e"}}
    /\ LET step == StepOfWait(blePc)
       IN  /\ timeouts' = IF wait_cmd_response(resp) = "None"
                          THEN timeouts + 1 ELSE timeouts
           /\ bleLog' = Append(bleLog, Op("wait", H_CMD_RESPONSE, step))
           /\ blePc' = AfterWait(resp, AfterStep(step))
    /\ UNCHANGED <<disconnected, bleOut, argv, scan, is_encrypted, keyVars,
                   attempts, tried, cmd_resp_cccd>>
    /\ UNCHANGED nonBleVars

\* step 4e: the response to the read of the pairing block: none, one of
\* fewer than 16 bytes, one of 16 to 63 bytes (its last 16 bytes are taken
\* as the LTK) or the 16-byte header and at least 0x30 bytes of SPI data
PairingBlock(resp, key) ==
    /\ blePc = "step4e_response"
    /\ timeouts' = IF wait_cmd_response(resp) = "None"
                   THEN timeouts + 1 ELSE timeouts
    /\ bleLog' = Append(bleLog, Op("wait", H_CMD_RESPONSE, "step4e"))
    /\ ltk_bytes' = IF resp \in {"full", "fallback"} THEN key.ltk ELSE << >>
    /\ ediv_value' = IF resp = "full" THEN key.ediv ELSE 0
    /\ rand_bytes' = IF resp = "full" THEN key.rand ELSE ZeroRand
    /\ blePc' = AfterWait(resp, AfterStep("step4e"))
    /\ UNCHANGED <<disconnected, bleOut, argv, scan, is_encrypted, attempts,
                   tried, cmd_resp_cccd>>
    /\ UNCHANGED nonBleVars

\* step 4f: nothing to do when the link is encrypted, when there is no LTK
\* or with --no-encrypt; otherwise the list of attempts is made up
EncryptBegin ==
    /\ blePc = "step4f"
    /\ IF ~is_encrypted /\ ltk_bytes # << >> /\ "--no-encrypt" \notin argv
       THEN /\ attempts' = Attempts(ediv_value, rand_bytes, ltk_bytes)
            /\ blePc' = "step4f_loop"
       ELSE /\ UNCHANGED attempts
            /\ blePc' = IfConnected("step5")
    /\ UNCHANGED <<disconnected, bleOut, argv, scan, is_encrypted, keyVars,
                   tried, bleLog, timeouts, cmd_resp_cccd>>
    /\ UNCHANGED nonBleVars

\* step 4f, one turn of "for label, ediv, rand, ltk in attempts": break when
\* the link is encrypted or down; otherwise HCI_LE_Enable_Encryption is sent
\* and its result awaited for 5 s; break when the link is encrypted now
EncryptAttempt(result) ==
    /\ blePc = "step4f_loop"
    /\ IF attempts = << >> \/ is_encrypted \/ disconnected
       THEN /\ blePc' = IfConnected("step5")
            /\ UNCHANGED <<is_encrypted, attempts, tried, bleLog>>
       ELSE /\ tried' = Append(tried, Head(attempts))
            /\ bleLog' = Append(bleLog, Op("encrypt", 0, Head(attempts).label))
            /\ is_encrypted' = (result = "encrypted")
            /\ attempts' = Tail(attempts)
            /\ blePc' = IF result = "encrypted"
                        THEN IfConnected("step5") ELSE "step4f_loop"
    /\ UNCHANGED <<disconnected, bleOut, argv, scan, keyVars, timeouts,
                   cmd_resp_cccd>>
    /\ UNCHANGED nonBleVars

\* step 5: await write_handle(peer, H_CMD_WRITE, build_led_cmd(LED_MAP[0]))
SetLed(ok) ==
    /\ blePc = "step5"
    /\ bleLog' = Append(bleLog, Op("write", H_CMD_WRITE, "led"))
    /\ blePc' = "step5_response"
    /\ UNCHANGED <<disconnected, bleOut, argv, scan, is_encrypted, keyVars,
                   attempts, tried, timeouts, cmd_resp_cccd>>
    /\ UNCHANGED nonBleVars

\* step 5: resp = await wait_cmd_response(timeout=2.0);
\* if disconnected.is_set(): return
LedResponse(resp) ==
    /\ blePc = "step5_response"
    /\ timeouts' = IF wait_cmd_response(resp) = "None"
                   THEN timeouts + 1 ELSE timeouts
    /\ bleLog' = Append(bleLog, Op("wait", H_CMD_RESPONSE, "step5"))
    /\ blePc' = AfterWait(resp, "step6_subscribe")
    /\ UNCHANGED <<disconnected, bleOut, argv, scan, is_encrypted, keyVars,
                   attempts, tried, cmd_resp_cccd>>
    /\ UNCHANGED nonBleVars

\* step 6: char.subscribe(on_input_notification) for the characteristic of
\* handle 0x000A when discovery listed one; a failure is printed
SubscribeInput(outcome) ==
    /\ blePc = "step6_subscribe"
    /\ bleOut' = [bleOut EXCEPT !.subscribe = outcome]
    /\ bleLog' = IF outcome = "absent" THEN bleLog
                 ELSE Append(bleLog, Op("subscribe", H_INPUT_REPORT, ""))
    /\ blePc' = "step6_input_cccd"
    /\ UNCHANGED <<disconnected, argv, scan, is_encrypted, keyVars, attempts,
                   tried, timeouts, cmd_resp_cccd>>
    /\ UNCHANGED nonBleVars

\* step 6: await write_handle(peer, H_INPUT_CCCD, 01 00), the result dropped
WriteInputCccd(ok) ==
    /\ blePc = "step6_input_cccd"
    /\ bleOut' = [bleOut EXCEPT !.inputCccd = write_handle(ok)]
    /\ bleLog' = Append(bleLog, Op("write", H_INPUT_CCCD, "0100"))
    /\ blePc' = "step6_cmd_resp_cccd"
    /\ UNCHANGED <<disconnected, argv, scan, is_encrypted, keyVars, attempts,
                   tried, timeouts, cmd_resp_cccd>>
    /\ UNCHANGED nonBleVars

\* step 6: await write_handle(peer, H_CMD_RESP_CCCD, 00 00), the result
\* dropped; then if disconnected.is_set(): return
WriteCmdRespCccd(ok) ==
    /\ blePc = "step6_cmd_resp_cccd"
    /\ bleLog' = Append(bleLog, Op("write", H_CMD_RESP_CCCD, "0000"))
    /\ cmd_resp_cccd' = IF ok THEN "disabled" ELSE cmd_resp_cccd
    /\ blePc' = IfConnected("subscribe_others")
    /\ UNCHANGED <<disconnected, bleOut, argv, scan, is_encrypted, keyVars,
                   attempts, tried, timeouts>>
    /\ UNCHANGED nonBleVars

\* the other notify characteristics are subscribed, failures printed, and
\* "Listening for notifications" begins
StartListening ==
    /\ blePc = "subscribe_others"
    /\ blePc' = "listen"
    /\ UNCHANGED <<disconnected, bleOut, argv, scan, is_encrypted, keyVars,
                   attempts, tried, bleLog, timeouts, cmd_resp_cccd>>
    /\ UNCHANGED nonBleVars

\* await disconnected.wait() returns; the summary is printed
ListenEnds ==
    /\ blePc = "listen"
    /\ disconnected
    /\ blePc' = "returned"
    /\ UNCHANGED <<disconnected, bleOut, argv, scan, is_encrypted, keyVars,
                   attempts, tried, bleLog, timeouts, cmd_resp_cccd>>
    /\ UNCHANGED nonBleVars

\* main() is called with the switches in args
BleInitWith(args) ==
    /\ blePc = "start"
    /\ disconnected = FALSE
    /\ bleOut = NoOutcomes
    /\ argv = args
    /\ scan = "none"
    /\ is_encrypted = FALSE
    /\ ltk_bytes = << >>
    /\ ediv_value = 0
    /\ rand_bytes = ZeroRand
    /\ attempts = << >>
    /\ tried = << >>
    /\ bleLog = << >>
    /\ timeouts = 0
    /\ cmd_resp_cccd = "unset"

\* main() has not begun; no switch is given
BleInit == BleInitWith({})

\* the command lines tried: no switch, each switch alone, and two mixed ones
ArgLists ==
    {{}} \cup {{f} : f \in Flags}
        \cup {{"--no-scan", "--no-pair"}, {"--no-smp", "--no-encrypt"}}

\* main() has not begun
BleInitArgs == \E args \in ArgLists : BleInitWith(args)

\* the steps of main(), as opposed to what the controller does
BleStep ==
    \/ \E found \in BOOLEAN : Scan(found)
    \/ \E ok \in BOOLEAN : Connect(ok)
    \/ \E outcome \in {"encrypted", "unencrypted", "failed"} :
          SmpPairing(outcome)
    \/ \E ok \in BOOLEAN : MtuExchange(ok)
    \/ \E ok \in BOOLEAN : Discover(ok)
    \/ \E ok \in BOOLEAN : EnableService(ok)
    \/ \E ok \in BOOLEAN : EnableCmdRespCccd(ok)
    \/ \E outcome \in {"ok", "failed", "absent"} :
          SubscribeCmdResponse(outcome)
    \/ \E ok \in BOOLEAN : WriteCommand(ok)
    \/ \E resp \in {"response", "timeout"} : WaitResponse(resp)
    \/ \E resp \in {"timeout", "short", "fallback", "full"},
          key \in PairingKeys : PairingBlock(resp, key)
    \/ EncryptBegin
    \/ \E result \in {"encrypted", "failed", "timeout", "hci_error"} :
          EncryptAttempt(result)
    \/ \E ok \in BOOLEAN : SetLed(ok)
    \/ \E resp \in {"response", "timeout"} : LedResponse(resp)
    \/ \E outcome \in {"ok", "failed", "absent"} : SubscribeInput(outcome)
    \/ \E ok \in BOOLEAN : WriteInputCccd(ok)
    \/ \E ok \in BOOLEAN : WriteCmdRespCccd(ok)
    \/ StartListening
    \/ ListenEnds

BleNext ==
    \/ Disconnection
    \/ \E ok \in BOOLEAN : SecurityRequest(ok)
    \/ \E found \in BOOLEAN : Scan(found)
    \/ \E ok \in BOOLEAN : Connect(ok)
    \/ \E outcome \in {"encrypted", "unencrypted", "failed"} :
          SmpPairing(outcome)
    \/ \E ok \in BOOLEAN : MtuExchange(ok)
    \/ \E ok \in BOOLEAN : Discover(ok)
    \/ \E ok \in BOOLEAN : EnableService(ok)
    \/ \E ok \in BOOLEAN : EnableCmdRespCccd(ok)
    \/ \E outcome \in {"ok", "failed", "absent"} :
          SubscribeCmdResponse(outcome)
    \/ \E ok \in BOOLEAN : WriteCommand(ok)
    \/ \E resp \in {"response", "timeout"} : WaitResponse(resp)
    \/ \E resp \in {"timeout", "short", "fallback", "full"},
          key \in PairingKeys : PairingBlock(resp, key)
    \/ EncryptBegin
    \/ \E result \in {"encrypted", "failed", "timeout", "hci_error"} :
          EncryptAttempt(result)
    \/ \E ok \in BOOLEAN : SetLed(ok)
    \/ \E resp \in {"response", "timeout"} : LedResponse(resp)
    \/ \E outcome \in {"ok", "failed", "absent"} : SubscribeInput(outcome)
    \/ \E ok \in BOOLEAN : WriteInputCccd(ok)
    \/ \E ok \in BOOLEAN : WriteCmdRespCccd(ok)
    \/ StartListening
    \/ ListenEnds

-----------------------------------------------------------------------------
(* tools/ble_bumble_connect.py: the command packets for handle 0x0014 *)

CMD_SPI_READ == 2
CMD_SET_LED == 9
CMD_FEATURE_CTRL == 12
CMD_FW_VERSION == 16
CMD_PAIRING == 21
REQ_TYPE == 145
IFACE_BLE == 1

SPI_DEVICE_INFO == <<0, 48, 1, 0>>
SPI_PAIRING_DATA == <<0, 160, 31, 0>>
SPI_LTK == <<26, 160, 31, 0>>
SPI_CAL_LEFT == <<128, 48, 1, 0>>
SPI_CAL_RIGHT == <<192, 48, 1, 0>>
SPI_CAL_USER == <<64, 192, 31, 0>>
SPI_CAL_TRIGGER == <<64, 49, 1, 0>>

LED_MAP == <<1, 3, 5, 6, 7, 9, 10, 11>>

\* pkt = bytearray([cmd_id, REQ_TYPE, IFACE_BLE, subcmd, 0x00, data_len + 1,
\* 0x00, 0x00]); return bytes(pkt) + bytes(data)
build_cmd(cmd_id, subcmd, data) ==
    <<cmd_id, REQ_TYPE, IFACE_BLE, subcmd, 0, Len(data) + 1, 0, 0>> \o data

build_spi_read(addr_bytes, size) ==
    <<CMD_SPI_READ, REQ_TYPE, IFACE_BLE, 4, 0, 8, 0, 0, size, 126, 0, 0,
      addr_bytes[1], addr_bytes[2], addr_bytes[3], addr_bytes[4]>>

build_led_cmd(led_mask) ==
    <<CMD_SET_LED, REQ_TYPE, IFACE_BLE, 7, 0, 8, 0, 0,
      led_mask, 0, 0, 0, 0, 0, 0, 0>>

build_feature_configure(flags) ==
    <<CMD_FEATURE_CTRL, REQ_TYPE, IFACE_BLE, 2, 0, 4, 0, 0, flags, 0, 0, 0>>

build_feature_enable(flags) ==
    <<CMD_FEATURE_CTRL, REQ_TYPE, IFACE_BLE, 4, 0, 4, 0, 0, flags, 0, 0, 0>>

\* addr_m1[5] = (addr_m1[5] - 1) & 0xFF on a copy of the address
build_pair_step1(local_addr_bytes) ==
    LET addr == local_addr_bytes
        addr_m1 == [addr EXCEPT ![6] = (addr[6] - 1) % 256]
    IN  <<CMD_PAIRING, REQ_TYPE, IFACE_BLE, 1, 0, 14, 0, 0, 0, 2>>
            \o addr \o addr_m1

PAIR_STEP2 ==
    <<CMD_PAIRING, REQ_TYPE, IFACE_BLE, 4, 0, 17, 0, 0, 0,
      234, 189, 71, 19, 137, 53, 66,
      198, 121, 238, 7, 242, 83, 44, 108, 49>>

PAIR_STEP3 ==
    <<CMD_PAIRING, REQ_TYPE, IFACE_BLE, 2, 0, 17, 0, 0, 0,
      64, 176, 138, 95, 205, 31, 155,
      65, 18, 92, 172, 198, 63, 56, 160, 115>>

PAIR_STEP4 == <<CMD_PAIRING, REQ_TYPE, IFACE_BLE, 3, 0, 1, 0, 0, 0>>

\* the arguments the builders are called with
CmdIds == {CMD_SPI_READ, CMD_SET_LED, CMD_FW_VERSION}
SubCmds == {1, 4, 7}
CmdData ==
    {<< >>, <<0>>, <<255>>, <<1, 2>>, <<255, 0, 7>>, <<1, 2, 3, 4>>,
     <<1, 0, 0, 0, 0, 0, 0, 0>>}
SpiAddrs ==
    {SPI_DEVICE_INFO, SPI_PAIRING_DATA, SPI_LTK, SPI_CAL_LEFT, SPI_CAL_RIGHT,
     SPI_CAL_USER, SPI_CAL_TRIGGER}
SpiSizes == {16, 64}
FeatureFlags == {1, 2, 4, 16, 32, 128, 255}
LocalAddrs == {<<245, 244, 243, 242, 241, 240>>, <<17, 34, 51, 68, 85, 0>>}

NoCmd == [by |-> "none", args |-> << >>]

BuildCmd(cmd_id, subcmd, data) ==
    /\ cmdCall' = [by |-> "build_cmd", args |-> <<cmd_id, subcmd, data>>]
    /\ cmdPkt' = build_cmd(cmd_id, subcmd, data)
    /\ UNCHANGED nonCmdVars

BuildSpiRead(addr_bytes, size) ==
    /\ cmdCall' = [by |-> "build_spi_read", args |-> <<addr_bytes, size>>]
    /\ cmdPkt' = build_spi_read(addr_bytes, size)
    /\ UNCHANGED nonCmdVars

BuildLedCmd(i) ==
    /\ cmdCall' = [by |-> "build_led_cmd", args |-> <<LED_MAP[i]>>]
    /\ cmdPkt' = build_led_cmd(LED_MAP[i])
    /\ UNCHANGED nonCmdVars

BuildFeatureConfigure(flags) ==
    /\ cmdCall' = [by |-> "build_feature_configure", args |-> <<flags>>]
    /\ cmdPkt' = build_feature_configure(flags)
    /\ UNCHANGED nonCmdVars

BuildFeatureEnable(flags) ==
    /\ cmdCall' = [by |-> "build_feature_enable", args |-> <<flags>>]
    /\ cmdPkt' = build_feature_enable(flags)
    /\ UNCHANGED nonCmdVars

BuildPairStep1(local_addr_bytes) ==
    /\ cmdCall' = [by |-> "build_pair_step1", args |-> <<local_addr_bytes>>]
    /\ cmdPkt' = build_pair_step1(local_addr_bytes)
    /\ UNCHANGED nonCmdVars

\* main() writes one of the constant packets PAIR_STEP2, PAIR_STEP3, PAIR_STEP4
UsePairStep(n) ==
    /\ cmdCall' = [by |-> "PAIR_STEP", args |-> <<n>>]
    /\ cmdPkt' = CASE n = 2 -> PAIR_STEP2
                   [] n = 3 -> PAIR_STEP3
                   [] n = 4 -> PAIR_STEP4
    /\ UNCHANGED nonCmdVars

CmdInit ==
    /\ cmdCall = NoCmd
    /\ cmdPkt = << >>

CmdNext ==
    \/ \E cmd_id \in CmdIds, subcmd \in SubCmds, data \in CmdData :
          BuildCmd(cmd_id, subcmd, data)
    \/ \E addr_bytes \in SpiAddrs, size \in SpiSizes :
          BuildSpiRead(addr_bytes, size)
    \/ \E i \in 1 .. Len(LED_MAP) : BuildLedCmd(i)
    \/ \E flags \in FeatureFlags : BuildFeatureConfigure(flags)
    \/ \E flags \in FeatureFlags : BuildFeatureEnable(flags)
    \/ \E local_addr_bytes \in LocalAddrs : BuildPairStep1(local_addr_bytes)
    \/ \E n \in 2 .. 4 : UsePairStep(n)

-----------------------------------------------------------------------------
(* app.py: main() and run_headless() *)

\* argparse: --mode takes one of these, None when it is absent
ModeChoices == {"xbox360", "dolphin_pipe"}

\* no settings file in the working directory
NoFile == [exists |-> FALSE, version |-> 0, emulation_mode |-> "absent"]

\* the settings files met at start-up: the format version and the
\* emulation_mode the file stores ("absent": it stores none)
HeadFiles ==
    {NoFile} \cup
    [exists : {TRUE}, version : 1 .. 3,
     emulation_mode : {"xbox360", "dolphin_pipe", "dsu", "absent"}]

\* SettingsManager(calibration, cwd).load() in run_headless: the manager's
\* _slot_calibrations is the dict itself, and every loader reaches
\* self._slot_calibrations[0] before it stores anything: a KeyError on a dict
\* keyed by setting names, which load() catches and prints
HeadlessLoad(cal, f) ==
    IF ~f.exists THEN [cal |-> cal, failed |-> FALSE]
    ELSE [cal |-> cal, failed |-> TRUE]

\* mode_override if mode_override else calibration.get('emulation_mode',
\* 'xbox360')
ModeOf(override, cal) ==
    IF override # "None" THEN override
    ELSE IF "emulation_mode" \in DOMAIN cal THEN cal["emulation_mode"].v
    ELSE "xbox360"

\* run_headless's teardown
teardown(g) == ConnDisconnect(EmuStop(InputStop(g)))

\* where run_headless has installed its signal handlers and still runs
HeadRunning ==
    {"connect", "emu_start", "loop", "wait", "reconnect", "retry_wait",
     "teardown"}

\* the fields of the GUI orchestrator that run_headless does not have
guiRest == <<reconnect_was_emulating, timers, pendingDisc, emulate_btn,
             destroyed, guiOp, discWasEmu, connCall>>

\* main(): parse the command line and branch on --headless
Main(headless, m) ==
    /\ hPc = "main"
    /\ hPc' = IF headless THEN "start" ELSE "gui"
    /\ mode_override' = m
    /\ UNCHANGED <<hFile, calibration, load_failed, mode, main_stop_event,
                   disconnect_event, was_emulating, hCalls>>
    /\ UNCHANGED <<nonHeadVars, guiVars, connVars>>

\* app.run(): the event loop runs the orchestrator's callbacks
RunGui ==
    /\ hPc = "gui"
    /\ GuiNext

\* run_headless: load the settings and choose the mode
LoadSettings ==
    /\ hPc = "start"
    /\ LET r == HeadlessLoad(calibration, hFile)
       IN  /\ calibration' = r.cal
           /\ load_failed' = r.failed
           /\ mode' = ModeOf(mode_override, r.cal)
    /\ hPc' = "check"
    /\ UNCHANGED <<mode_override, hFile, main_stop_event, disconnect_event,
                   was_emulating, hCalls>>
    /\ UNCHANGED <<nonHeadVars, guiVars, connVars>>

\* run_headless: is_emulation_available(mode), else sys.exit(1); then the
\* managers are built and the signal handlers installed
CheckAvailable(avail) ==
    /\ hPc = "check"
    /\ hPc' = IF avail THEN "connect" ELSE "exit1"
    /\ UNCHANGED <<mode_override, hFile, calibration, load_failed, mode,
                   main_stop_event, disconnect_event, was_emulating, hCalls>>
    /\ UNCHANGED <<nonHeadVars, guiVars, connVars>>

\* _shutdown without its second line: the wait is not unblocked
ShutdownStopOnly ==
    /\ hPc \in HeadRunning
    /\ main_stop_event' = TRUE
    /\ UNCHANGED <<hPc, mode_override, hFile, calibration, load_failed, mode,
                   disconnect_event, was_emulating, hCalls>>
    /\ UNCHANGED <<nonHeadVars, guiVars, connVars>>

\* _shutdown(signum, frame): SIGINT or SIGTERM
Shutdown ==
    /\ hPc \in HeadRunning
    /\ main_stop_event' = TRUE
    /\ disconnect_event' = TRUE
    /\ UNCHANGED <<hPc, mode_override, hFile, calibration, load_failed, mode,
                   was_emulating, hCalls>>
    /\ UNCHANGED <<nonHeadVars, guiVars, connVars>>

\* run_headless: the first conn_mgr.connect(), else sys.exit(1)
HeadConnect(e) ==
    /\ hPc = "connect"
    /\ LET r == connect(e)
       IN  /\ device' = IF initialize_via_usb(e).ok THEN r.device ELSE device
           /\ hPc' = IF r.ret THEN "emu_start" ELSE "exit1"
    /\ UNCHANGED <<mode_override, hFile, calibration, load_failed, mode,
                   main_stop_event, disconnect_event, was_emulating, hCalls>>
    /\ UNCHANGED <<is_reading, stop_event, is_emulating>>
    /\ UNCHANGED <<nonHeadVars, guiRest>>

\* run_headless: emu_mgr.start(mode); when it raises, conn_mgr.disconnect()
\* and sys.exit(1); else the InputProcessor is built and started
HeadStart(emu) ==
    /\ hPc = "emu_start"
    /\ IF emu = "ok"
       THEN LET g == InputStart([GuiState EXCEPT !.is_emulating = TRUE])
            IN  /\ is_reading' = g.is_reading
                /\ stop_event' = g.stop_event
                /\ is_emulating' = g.is_emulating
                /\ device' = g.device
                /\ hCalls' = g.op.calls
                /\ hPc' = "loop"
       ELSE LET g == ConnDisconnect(GuiState)
            IN  /\ device' = g.device
                /\ hCalls' = g.op.calls
                /\ hPc' = "exit1"
                /\ UNCHANGED <<is_reading, stop_event, is_emulating>>
    /\ UNCHANGED <<mode_override, hFile, calibration, load_failed, mode,
                   main_stop_event, disconnect_event, was_emulating>>
    /\ UNCHANGED <<nonHeadVars, guiRest>>

\* the read worker meets a device-gone error: it exits and calls
\* _on_disconnect
HeadDeviceGone ==
    /\ hPc \in HeadRunning
    /\ is_reading
    /\ is_reading' = FALSE
    /\ disconnect_event' = TRUE
    /\ UNCHANGED <<hPc, mode_override, hFile, calibration, load_failed, mode,
                   main_stop_event, was_emulating, hCalls>>
    /\ UNCHANGED <<stop_event, is_emulating, device>>
    /\ UNCHANGED <<nonHeadVars, guiRest>>

\* run_headless: while not stop_event.is_set()
LoopHead ==
    /\ hPc = "loop"
    /\ hPc' = IF main_stop_event THEN "teardown" ELSE "wait"
    /\ UNCHANGED <<mode_override, hFile, calibration, load_failed, mode,
                   main_stop_event, disconnect_event, was_emulating, hCalls>>
    /\ UNCHANGED <<nonHeadVars, guiVars, connVars>>

\* run_headless: disconnect_event.wait() returns; the event is cleared and,
\* unless a shutdown is pending, the handle closed and emulation stopped
Wake ==
    /\ hPc = "wait"
    /\ disconnect_event
    /\ disconnect_event' = FALSE
    /\ IF main_stop_event
       THEN /\ hPc' = "teardown"
            /\ UNCHANGED <<was_emulating, hCalls, is_emulating, device>>
       ELSE /\ hPc' = "reconnect"
            /\ was_emulating' = is_emulating
            /\ is_emulating' = FALSE
            /\ device' = "none"
            /\ hCalls' =
                   (IF device # "none" THEN <<"device.close">> ELSE <<>>)
                   \o (IF is_emulating THEN <<"emu_mgr.stop">> ELSE <<>>)
    /\ UNCHANGED <<mode_override, hFile, calibration, load_failed, mode,
                   main_stop_event>>
    /\ UNCHANGED <<is_reading, stop_event>>
    /\ UNCHANGED <<nonHeadVars, guiRest>>

\* run_headless: one round of the reconnect loop
Reconnect(e, emu) ==
    /\ hPc = "reconnect"
    /\ IF main_stop_event
       THEN /\ hPc' = "loop"
            /\ UNCHANGED <<is_reading, stop_event, is_emulating, device,
                           hCalls>>
       ELSE LET r  == connect(e)
                dv == IF initialize_via_usb(e).ok THEN r.device ELSE device
                g  == InputStart([GuiState EXCEPT !.device = dv])
            IN  IF r.ret
                THEN /\ is_reading' = g.is_reading
                     /\ stop_event' = g.stop_event
                     /\ is_emulating' = (was_emulating /\ emu = "ok")
                     /\ device' = dv
                     /\ hCalls' = <<>>
                     /\ hPc' = "loop"
                ELSE /\ device' = dv
                     /\ hCalls' = <<>>
                     /\ hPc' = "retry_wait"
                     /\ UNCHANGED <<is_reading, stop_event, is_emulating>>
    /\ UNCHANGED <<mode_override, hFile, calibration, load_failed, mode,
                   main_stop_event, disconnect_event, was_emulating>>
    /\ UNCHANGED <<nonHeadVars, guiRest>>

\* run_headless: stop_event.wait(timeout=2.0) returns
RetryWait ==
    /\ hPc = "retry_wait"
    /\ hPc' = "reconnect"
    /\ UNCHANGED <<mode_override, hFile, calibration, load_failed, mode,
                   main_stop_event, disconnect_event, was_emulating, hCalls>>
    /\ UNCHANGED <<nonHeadVars, guiVars, connVars>>

\* run_headless: "Shutting down...", the three calls, "Done."
Teardown ==
    /\ hPc = "teardown"
    /\ LET g == teardown(GuiState)
       IN  /\ is_reading' = g.is_reading
           /\ stop_event' = g.stop_event
           /\ is_emulating' = g.is_emulating
           /\ device' = g.device
           /\ hCalls' = g.op.calls
    /\ hPc' = "done"
    /\ UNCHANGED <<mode_override, hFile, calibration, load_failed, mode,
                   main_stop_event, disconnect_event, was_emulating>>
    /\ UNCHANGED <<nonHeadVars, guiRest>>

HeadInitWith(f) ==
    /\ hPc = "main"
    /\ mode_override = "None"
    /\ hFile = f
    /\ calibration = DEFAULT_CALIBRATION
    /\ load_failed = FALSE
    /\ mode = "unset"
    /\ main_stop_event = FALSE
    /\ disconnect_event = FALSE
    /\ was_emulating = FALSE
    /\ hCalls = <<>>

HeadInit == HeadInitWith(NoFile)

\* any settings file may lie in the working directory
HeadInitFiles == \E f \in HeadFiles : HeadInitWith(f)

\* the steps of run_headless's main thread from its main loop on
MainLoopStep ==
    \/ LoopHead
    \/ Wake
    \/ \E e \in GuiConnEnvs, emu \in {"ok", "raises"} : Reconnect(e, emu)
    \/ RetryWait
    \/ Teardown

AppNext ==
    \/ \E headless \in BOOLEAN, m \in ModeChoices \cup {"None"} :
           Main(headless, m)
    \/ RunGui
    \/ LoadSettings
    \/ \E avail \in BOOLEAN : CheckAvailable(avail)
    \/ Shutdown
    \/ \E e \in GuiConnEnvs : HeadConnect(e)
    \/ \E emu \in {"ok", "raises"} : HeadStart(emu)
    \/ HeadDeviceGone
    \/ LoopHead
    \/ Wake
    \/ \E e \in GuiConnEnvs, emu \in {"ok", "raises"} : Reconnect(e, emu)
    \/ RetryWait
    \/ Teardown

-----------------------------------------------------------------------------
(* dsu_server.py: DSUGamepad.update() / reset() on the input thread and    *)
(* close() on another thread, statement by statement                       *)

NoPkt == [state |-> Neutral, ctr |-> 0, connected |-> FALSE]

\* the pad's setters, between two calls: the pad state is no longer empty
PadSetters ==
    /\ uPc = "idle"
    /\ rState = Neutral
    /\ rState' = Dirty
    /\ UNCHANGED <<rClosed, rRefcount, rInstance, rRunning, rSock, rConnected,
                   rSlotState, rCounter, rSubs, uPc, uOp, uCtr, uPkt, uIdx,
                   cPc, sentAfterClose>>
    /\ UNCHANGED nonRaceVars

\* DSUGamepad.update() / reset() up to the call of update_slot: reset()
\* empties the pad state; both return at once on a closed pad
UCall(op) ==
    /\ uPc = "idle"
    /\ rCounter < MaxCounter
    /\ uOp' = op
    /\ rState' = IF op = "reset" THEN Neutral ELSE rState
    /\ uPc' = IF rClosed THEN "idle" ELSE "store"
    /\ UNCHANGED <<rClosed, rRefcount, rInstance, rRunning, rSock, rConnected,
                   rSlotState, rCounter, rSubs, uCtr, uPkt, uIdx, cPc,
                   sentAfterClose>>
    /\ UNCHANGED nonRaceVars

\* update_slot: self._slot_states[slot] = state
UStore ==
    /\ uPc = "store"
    /\ rSlotState' = rState
    /\ uPc' = "read_ctr"
    /\ UNCHANGED <<rClosed, rState, rRefcount, rInstance, rRunning, rSock,
                   rConnected, rCounter, rSubs, uOp, uCtr, uPkt, uIdx, cPc,
                   sentAfterClose>>
    /\ UNCHANGED nonRaceVars

\* update_slot: self._slot_packet_counter[slot] += 1, the read
UReadCtr ==
    /\ uPc = "read_ctr"
    /\ uCtr' = rCounter
    /\ uPc' = "write_ctr"
    /\ UNCHANGED <<rClosed, rState, rRefcount, rInstance, rRunning, rSock,
                   rConnected, rSlotState, rCounter, rSubs, uOp, uPkt, uIdx,
                   cPc, sentAfterClose>>
    /\ UNCHANGED nonRaceVars

\* update_slot: self._slot_packet_counter[slot] += 1, the write
UWriteCtr ==
    /\ uPc = "write_ctr"
    /\ rCounter' = uCtr + 1
    /\ uPc' = "check_sock"
    /\ UNCHANGED <<rClosed, rState, rRefcount, rInstance, rRunning, rSock,
                   rConnected, rSlotState, rSubs, uOp, uCtr, uPkt, uIdx, cPc,
                   sentAfterClose>>
    /\ UNCHANGED nonRaceVars

\* _send_data_to_subscribers: if not self._sock: return (a closed socket
\* object is still true)
UCheckSock ==
    /\ uPc = "check_sock"
    /\ uPc' = IF rSock = "none" THEN "idle" ELSE "build"
    /\ UNCHANGED <<rClosed, rState, rRefcount, rInstance, rRunning, rSock,
                   rConnected, rSlotState, rCounter, rSubs, uOp, uCtr, uPkt,
                   uIdx, cPc, sentAfterClose>>
    /\ UNCHANGED nonRaceVars

\* _send_data_to_subscribers: packet = self._build_data_packet(slot); no
\* subscription expires during the call
UBuild ==
    /\ uPc = "build"
    /\ uPkt' = [state |-> rSlotState, ctr |-> rCounter,
                connected |-> rConnected]
    /\ uIdx' = 1
    /\ uPc' = "send"
    /\ UNCHANGED <<rClosed, rState, rRefcount, rInstance, rRunning, rSock,
                   rConnected, rSlotState, rCounter, rSubs, uOp, uCtr, cPc,
                   sentAfterClose>>
    /\ UNCHANGED nonRaceVars

\* what self._sock.sendto(packet, addr) comes to: on None an AttributeError,
\* which except OSError does not catch; on a closed socket an OSError
SendOutcomes(s) ==
    IF s = "none" THEN {"AttributeError"}
    ELSE IF s = "closed" THEN {"OSError"}
    ELSE {"sent", "OSError"}

\* _send_data_to_subscribers: one round of for addr in self._subscribers
USend(outcome) ==
    /\ uPc = "send"
    /\ uIdx <= rSubs
    /\ outcome \in SendOutcomes(rSock)
    /\ uPc' = IF outcome = "AttributeError" THEN "raised" ELSE "send"
    /\ uIdx' = uIdx + 1
    /\ sentAfterClose' =
          (sentAfterClose \/ (outcome = "sent" /\ cPc = "returned"))
    /\ UNCHANGED <<rClosed, rState, rRefcount, rInstance, rRunning, rSock,
                   rConnected, rSlotState, rCounter, rSubs, uOp, uCtr, uPkt,
                   cPc>>
    /\ UNCHANGED nonRaceVars

\* _send_data_to_subscribers: the loop is over; update() or reset() returns
UReturn ==
    /\ uPc = "send"
    /\ uIdx > rSubs
    /\ uPc' = "idle"
    /\ UNCHANGED <<rClosed, rState, rRefcount, rInstance, rRunning, rSock,
                   rConnected, rSlotState, rCounter, rSubs, uOp, uCtr, uPkt,
                   uIdx, cPc, sentAfterClose>>
    /\ UNCHANGED nonRaceVars

\* DSUGamepad.close(): if self._closed: return; self._closed = True
CFlag ==
    /\ cPc = "idle"
    /\ ~rClosed
    /\ rClosed' = TRUE
    /\ cPc' = "disconnect"
    /\ UNCHANGED <<rState, rRefcount, rInstance, rRunning, rSock, rConnected,
                   rSlotState, rCounter, rSubs, uPc, uOp, uCtr, uPkt, uIdx,
                   sentAfterClose>>
    /\ UNCHANGED nonRaceVars

\* set_slot_connected(slot, False): self._slot_connected[slot] = connected
CDisconnect ==
    /\ cPc = "disconnect"
    /\ rConnected' = FALSE
    /\ cPc' = "clear_state"
    /\ UNCHANGED <<rClosed, rState, rRefcount, rInstance, rRunning, rSock,
                   rSlotState, rCounter, rSubs, uPc, uOp, uCtr, uPkt, uIdx,
                   sentAfterClose>>
    /\ UNCHANGED nonRaceVars

\* set_slot_connected(slot, False): the slot state is made empty
CClearState ==
    /\ cPc = "clear_state"
    /\ rSlotState' = Neutral
    /\ cPc' = "clear_ctr"
    /\ UNCHANGED <<rClosed, rState, rRefcount, rInstance, rRunning, rSock,
                   rConnected, rCounter, rSubs, uPc, uOp, uCtr, uPkt, uIdx,
                   sentAfterClose>>
    /\ UNCHANGED nonRaceVars

\* set_slot_connected(slot, False): the packet counter is set to 0
CClearCtr ==
    /\ cPc = "clear_ctr"
    /\ rCounter' = 0
    /\ cPc' = "release"
    /\ UNCHANGED <<rClosed, rState, rRefcount, rInstance, rRunning, rSock,
                   rConnected, rSlotState, rSubs, uPc, uOp, uCtr, uPkt, uIdx,
                   sentAfterClose>>
    /\ UNCHANGED nonRaceVars

\* _release_server: the decrement; with other pads left close() returns,
\* else stop() begins: self._running = False
CRelease ==
    /\ cPc = "release"
    /\ rRefcount' = RefcountAfterRelease(rRefcount)
    /\ rRunning' = (rRunning /\ ~ReleaseStops(rRefcount))
    /\ cPc' = IF ReleaseStops(rRefcount) THEN "join" ELSE "returned"
    /\ UNCHANGED <<rClosed, rState, rInstance, rSock, rConnected, rSlotState,
                   rCounter, rSubs, uPc, uOp, uCtr, uPkt, uIdx,
                   sentAfterClose>>
    /\ UNCHANGED nonRaceVars

\* stop(): the join of the listener thread returns; self._sock.close()
CCloseSock ==
    /\ cPc = "join"
    /\ rSock' = "closed"
    /\ cPc' = "clear_sock"
    /\ UNCHANGED <<rClosed, rState, rRefcount, rInstance, rRunning,
                   rConnected, rSlotState, rCounter, rSubs, uPc, uOp, uCtr,
                   uPkt, uIdx, sentAfterClose>>
    /\ UNCHANGED nonRaceVars

\* stop(): self._sock = None; _release_server: _server_instance = None;
\* close() returns
CClearSock ==
    /\ cPc = "clear_sock"
    /\ rSock' = "none"
    /\ rInstance' = FALSE
    /\ cPc' = "returned"
    /\ UNCHANGED <<rClosed, rState, rRefcount, rRunning, rConnected,
                   rSlotState, rCounter, rSubs, uPc, uOp, uCtr, uPkt, uIdx,
                   sentAfterClose>>
    /\ UNCHANGED nonRaceVars

\* an open pad on a running server, others pads open pads besides it and
\* subs clients subscribed
RaceInitWith(others, subs) ==
    /\ rClosed = FALSE
    /\ rState = Neutral
    /\ rRefcount = 1 + others
    /\ rInstance = TRUE
    /\ rRunning = TRUE
    /\ rSock = "open"
    /\ rConnected = TRUE
    /\ rSlotState = Neutral
    /\ rCounter = 0
    /\ rSubs = subs
    /\ uPc = "idle"
    /\ uOp = "none"
    /\ uCtr = 0
    /\ uPkt = NoPkt
    /\ uIdx = 1
    /\ cPc = "idle"
    /\ sentAfterClose = FALSE

RaceInit == RaceInitWith(0, 1)

RaceInitAny ==
    \E others \in 0 .. 1, subs \in 0 .. MaxClients : RaceInitWith(others, subs)

RaceNext ==
    \/ PadSetters
    \/ \E op \in {"update", "reset"} : UCall(op)
    \/ UStore
    \/ UReadCtr
    \/ UWriteCtr
    \/ UCheckSock
    \/ UBuild
    \/ \E outcome \in {"sent", "OSError", "AttributeError"} : USend(outcome)
    \/ UReturn
    \/ CFlag
    \/ CDisconnect
    \/ CClearState
    \/ CClearCtr
    \/ CRelease
    \/ CCloseSock
    \/ CClearSock

-----------------------------------------------------------------------------
(* tools/ble_bumble_connect.py: the queue of command responses in steps 3  *)
(* to 4e of main()                                                         *)

\* the steps that write a command and wait for its response, in order
HsOrder == <<"step3", "step4a", "step4b", "step4c", "step4d", "step4e">>

HsNow == HsOrder[hsStep]

\* main(): await write_handle(peer, H_CMD_WRITE, cmd); a command that was
\* written is one the peripheral may answer
HsWrite(ok) ==
    /\ hsPhase = "write"
    /\ hsUnanswered' = IF write_handle(ok) = "ok" THEN hsUnanswered \cup {HsNow}
                       ELSE hsUnanswered
    /\ hsPhase' = "wait"
    /\ UNCHANGED <<hsStep, cmd_responses, hsGot>>
    /\ UNCHANGED nonRespVars

\* on_cmd_response(value): the notification answering command s arrives, at
\* whatever time, and is put on the queue
OnCmdResponse(s) ==
    /\ s \in hsUnanswered
    /\ cmd_responses' = Append(cmd_responses, s)
    /\ hsUnanswered' = hsUnanswered \ {s}
    /\ UNCHANGED <<hsStep, hsPhase, hsGot>>
    /\ UNCHANGED nonRespVars

\* wait_cmd_response: cmd_responses.get() returns the oldest queued value
HsWaitReturns ==
    /\ hsPhase = "wait"
    /\ cmd_responses # << >>
    /\ hsGot' = [hsGot EXCEPT ![HsNow] = Head(cmd_responses)]
    /\ cmd_responses' = Tail(cmd_responses)
    /\ hsStep' = IF hsStep = Len(HsOrder) THEN hsStep ELSE hsStep + 1
    /\ hsPhase' = IF hsStep = Len(HsOrder) THEN "done" ELSE "write"
    /\ UNCHANGED hsUnanswered
    /\ UNCHANGED nonRespVars

\* wait_cmd_response: three seconds pass with the queue empty: None
HsWaitTimesOut ==
    /\ hsPhase = "wait"
    /\ cmd_responses = << >>
    /\ hsGot' = [hsGot EXCEPT ![HsNow] = "None"]
    /\ hsStep' = IF hsStep = Len(HsOrder) THEN hsStep ELSE hsStep + 1
    /\ hsPhase' = IF hsStep = Len(HsOrder) THEN "done" ELSE "write"
    /\ UNCHANGED <<cmd_responses, hsUnanswered>>
    /\ UNCHANGED nonRespVars

RespInit ==
    /\ hsStep = 1
    /\ hsPhase = "write"
    /\ cmd_responses = << >>
    /\ hsUnanswered = {}
    /\ hsGot = [s \in CmdSteps |-> "pending"]

RespNext ==
    \/ \E ok \in BOOLEAN : HsWrite(ok)
    \/ \E s \in CmdSteps : OnCmdResponse(s)
    \/ HsWaitReturns
    \/ HsWaitTimesOut

(***************************************************************************)
(* dsu_server.py: the setters of DSUGamepad (sticks, triggers, buttons)    *)
(***************************************************************************)

\* how many setter calls a run makes
MaxPadCalls == 2

\* _BUTTON_ACTIONS: per button the list of (state key, bit, pressure key)
_BUTTON_ACTIONS ==
    [BACK           |-> <<[key |-> "buttons1", bit |-> 1, pressure |-> "None"]>>,
     START          |-> <<[key |-> "buttons1", bit |-> 8, pressure |-> "None"]>>,
     DPAD_UP        |-> <<[key |-> "buttons1", bit |-> 16,
                           pressure |-> "dpad_up"]>>,
     DPAD_RIGHT     |-> <<[key |-> "buttons1", bit |-> 32,
                           pressure |-> "dpad_right"]>>,
     DPAD_DOWN      |-> <<[key |-> "buttons1", bit |-> 64,
                           pressure |-> "dpad_down"]>>,
     DPAD_LEFT      |-> <<[key |-> "buttons1", bit |-> 128,
                           pressure |-> "dpad_left"]>>,
     LEFT_SHOULDER  |-> <<[key |-> "buttons2", bit |-> 4, pressure |-> "l1"]>>,
     RIGHT_SHOULDER |-> <<[key |-> "buttons2", bit |-> 8, pressure |-> "r1"]>>,
     Y              |-> <<[key |-> "buttons2", bit |-> 16,
                           pressure |-> "triangle"]>>,
     B              |-> <<[key |-> "buttons2", bit |-> 32,
                           pressure |-> "circle"]>>,
     A              |-> <<[key |-> "buttons2", bit |-> 64,
                           pressure |-> "cross"]>>,
     X              |-> <<[key |-> "buttons2", bit |-> 128,
                           pressure |-> "square"]>>,
     GUIDE          |-> <<[key |-> "ps_button", bit |-> 1, pressure |-> "None"]>>,
     LEFT_THUMB     |-> <<[key |-> "buttons1", bit |-> 2, pressure |-> "None"]>>,
     RIGHT_THUMB    |-> <<[key |-> "buttons1", bit |-> 4, pressure |-> "None"]>>]

MappedButtons == DOMAIN _BUTTON_ACTIONS

\* a button value that is no key of _BUTTON_ACTIONS
UnmappedButton == "UNMAPPED"

PadButtons == MappedButtons \cup {UnmappedButton}

\* _BUTTON_ACTIONS.get(button): the empty list stands for None
ActionsOf(button) ==
    IF button \in MappedButtons THEN _BUTTON_ACTIONS[button] ELSE <<>>

\* value | bit and value & ~bit, for a bit that is a power of two
BitOr(value, bit) ==
    IF (value \div bit) % 2 = 1 THEN value ELSE value + bit

BitAndNot(value, bit) ==
    IF (value \div bit) % 2 = 1 THEN value - bit ELSE value

\* one pass of the loop of press_button
PressOne(s, a) ==
    LET t == [s EXCEPT ![a.key] = BitOr(s[a.key], a.bit)]
    IN  IF a.pressure # "None" THEN [t EXCEPT ![a.pressure] = 255] ELSE t

\* one pass of the loop of release_button
ReleaseOne(s, a) ==
    LET t == [s EXCEPT ![a.key] = BitAndNot(s[a.key], a.bit)]
    IN  IF a.pressure # "None" THEN [t EXCEPT ![a.pressure] = 0] ELSE t

RECURSIVE PressAll(_, _)
PressAll(s, actions) ==
    IF actions = <<>> THEN s
    ELSE PressAll(PressOne(s, Head(actions)), Tail(actions))

RECURSIVE ReleaseAll(_, _)
ReleaseAll(s, actions) ==
    IF actions = <<>> THEN s
    ELSE ReleaseAll(ReleaseOne(s, Head(actions)), Tail(actions))

\* press_button with "=" where the code has "|=": the other bits are lost
press_buttonAssigning(s, button) ==
    IF ActionsOf(button) = <<>> THEN s
    ELSE LET a == ActionsOf(button)[1]
         IN  PressOne([s EXCEPT ![a.key] = 0], a)

\* DSUGamepad.press_button: the state dict after the call
press_button(s, button) == PressAll(s, ActionsOf(button))

\* DSUGamepad.release_button: the state dict after the call
release_button(s, button) == ReleaseAll(s, ActionsOf(button))

\* a trigger byte without the clamp
TriggerByteUnclamped(value) == value

\* max(0, min(255, value))
TriggerByte(value) == Max(0, Min(255, value))

\* DSUGamepad.left_trigger / right_trigger: the state dict after the call
left_trigger(s, value) == [s EXCEPT !.l_trigger = TriggerByte(value)]

right_trigger(s, value) == [s EXCEPT !.r_trigger = TriggerByte(value)]

\* DSUGamepad.left_joystick / right_joystick: the state dict after the call
LeftStick(s, x_value, y_value) ==
    [s EXCEPT !.lx = AxisByte(x_value), !.ly = AxisByte(0 - y_value)]

RightStick(s, x_value, y_value) ==
    [s EXCEPT !.rx = AxisByte(x_value), !.ry = AxisByte(0 - y_value)]

\* stick arguments: inside and outside [-32767, 32767]
PadStickInputs == {0 - 40000, 0 - 32767, 100, 40000}

\* trigger arguments: inside and outside [0, 255]
PadTriggerInputs == {0 - 1, 130, 256}

NoPadCall == [op |-> "none", button |-> "None", x |-> 0, y |-> 0]

PadCalled(op, button, x, y) ==
    /\ padCalls < MaxPadCalls
    /\ padCalls' = padCalls + 1
    /\ padCall' = [op |-> op, button |-> button, x |-> x, y |-> y]
    /\ UNCHANGED nonPadVars

PadPress(button) ==
    /\ _state' = press_button(_state, button)
    /\ PadCalled("press_button", button, 0, 0)

PadRelease(button) ==
    /\ _state' = release_button(_state, button)
    /\ PadCalled("release_button", button, 0, 0)

PadLeftStick(x_value, y_value) ==
    /\ _state' = LeftStick(_state, x_value, y_value)
    /\ PadCalled("left_joystick", "None", x_value, y_value)

PadRightStick(x_value, y_value) ==
    /\ _state' = RightStick(_state, x_value, y_value)
    /\ PadCalled("right_joystick", "None", x_value, y_value)

PadLeftTrigger(value) ==
    /\ _state' = left_trigger(_state, value)
    /\ PadCalled("left_trigger", "None", value, 0)

PadRightTrigger(value) ==
    /\ _state' = right_trigger(_state, value)
    /\ PadCalled("right_trigger", "None", value, 0)

\* DSUGamepad.__init__: self._state = DSUServer._make_empty_state()
PadInit ==
    /\ _state = _make_empty_state
    /\ padCall = NoPadCall
    /\ padCalls = 0

SetterNext ==
    \/ \E b \in PadButtons : PadPress(b)
    \/ \E b \in PadButtons : PadRelease(b)
    \/ \E x \in PadStickInputs, y \in PadStickInputs : PadLeftStick(x, y)
    \/ \E x \in PadStickInputs, y \in PadStickInputs : PadRightStick(x, y)
    \/ \E v \in PadTriggerInputs : PadLeftTrigger(v)
    \/ \E v \in PadTriggerInputs : PadRightTrigger(v)

Init ==
    DsuInit /\ ConnInit /\ GuiInit /\ SetInit /\ StickInit /\ PktInit
        /\ LsnInit /\ BleInit /\ CmdInit /\ HeadInit
        /\ RaceInit /\ RespInit /\ PadInit

Next == PadNext

Spec == Init /\ [][Next]_vars

InitSub ==
    SubInit /\ ConnInit /\ GuiInit /\ SetInit /\ StickInit /\ PktInit
        /\ LsnInit /\ BleInit /\ CmdInit /\ HeadInit
        /\ RaceInit /\ RespInit /\ PadInit

SpecSub == InitSub /\ [][SubNext]_vars

ConnNext ==
    \/ \E e \in ConnEnvs : CmConnect(e)
    \/ CmDisconnect

SpecConn == Init /\ [][ConnNext]_vars

SpecGui == Init /\ [][GuiNext]_vars

InitSet ==
    DsuInit /\ ConnInit /\ GuiInit /\ SetInitFiles /\ StickInit /\ PktInit
        /\ LsnInit /\ BleInit /\ CmdInit /\ HeadInit
        /\ RaceInit /\ RespInit /\ PadInit

SpecSet == InitSet /\ [][SetNext]_vars

SpecStick == Init /\ [][StickNext]_vars

SpecPkt == Init /\ [][PktNext]_vars

SpecListen == Init /\ [][LsnNext]_vars

\* the listener thread keeps taking steps
SpecListenFair == SpecListen /\ WF_vars(ListenerStep)

InitBle ==
    DsuInit /\ ConnInit /\ GuiInit /\ SetInit /\ StickInit /\ PktInit
        /\ LsnInit /\ BleInitArgs /\ CmdInit /\ HeadInit
        /\ RaceInit /\ RespInit /\ PadInit

SpecCmd == Init /\ [][CmdNext]_vars

SpecBle == InitBle /\ [][BleNext]_vars

\* main() keeps taking steps
SpecBleFair == SpecBle /\ WF_vars(BleStep)

InitApp ==
    DsuInit /\ ConnInit /\ GuiInit /\ SetInit /\ StickInit /\ PktInit
        /\ LsnInit /\ BleInit /\ CmdInit /\ HeadInitFiles
        /\ RaceInit /\ RespInit /\ PadInit

SpecApp == InitApp /\ [][AppNext]_vars

\* the main thread of run_headless keeps running: a step of its loop that
\* stays possible is taken
SpecAppFair == SpecApp /\ WF_vars(MainLoopStep)

InitRace ==
    DsuInit /\ ConnInit /\ GuiInit /\ SetInit /\ StickInit /\ PktInit
        /\ LsnInit /\ BleInit /\ CmdInit /\ HeadInit
        /\ RaceInitAny /\ RespInit /\ PadInit

SpecRace == InitRace /\ [][RaceNext]_vars

SpecResp == Init /\ [][RespNext]_vars

SpecPad == Init /\ [][SetterNext]_vars

\* C5: in the GUI orchestrator input_proc.start() is never invoked while a
\* read worker started by an earlier start() is still active.
C5_NoStartWhileWorkerActive == ~guiOp.startWhileActive

\* C6: after an unexpected disconnect the handle is closed and cleared and
\* emulation stopped; a failed attempt is followed by another one; a successful
\* attempt starts the read worker and starts emulation exactly when emulation
\* was active at the moment the disconnect was handled.
C6_ReconnectRestoresEmulation ==
    /\ (guiOp.op = "on_disconnect" /\ ~guiOp.ret) =>
          (device # "open" /\ ~is_emulating)
    /\ (guiOp.op \in {"on_disconnect", "reconnect"}
          /\ guiOp.connectCalled /\ ~guiOp.ret) => timers > 0
    /\ (guiOp.op \in {"on_disconnect", "reconnect"} /\ guiOp.ret) =>
          /\ guiOp.started
          /\ guiOp.emuStart <=> discWasEmu

\* C7: connect() returns False only when the device is not found or the HID
\* open fails; a failure of an intermediate step never aborts, the sequence
\* still goes on to open the HID device.
C7_OnlyFindAndHidAbort ==
    connCall.op = "connect" =>
       /\ ~connCall.ret => (~connCall.env.found \/ ~connCall.env.hid)
       /\ connCall.env.found =>
             \E i \in DOMAIN connCall.steps : connCall.steps[i] = "hid"

\* C7 as amended: connect() returns False exactly when the device is not
\* found, the write of the initialization report or of the LED report fails,
\* or the HID open fails; a USBError from kernel-driver detach, set
\* configuration, claim interface or release interface does not abort, and the
\* HID open is tried exactly when the device was found and both writes passed.
C7_WritesAbortGuardedStepsDoNot ==
    connCall.op = "connect" =>
       LET e == connCall.env
           hidTried == \E i \in DOMAIN connCall.steps : connCall.steps[i] = "hid"
       IN  /\ ~connCall.ret <=>
                (~e.found \/ e.winit # "ok" \/ e.wled # "ok" \/ ~e.hid)
           /\ hidTried <=> (e.found /\ e.winit = "ok" /\ e.wled = "ok")

\* C7 witness: a connect() in which set configuration, claim and release all
\* raised USBError and which still opened the HID device.
C7_Witness ==
    /\ connCall.op = "connect"
    /\ connCall.ret
    /\ connCall.env.config = "usberr"
    /\ connCall.env.claim = "usberr"
    /\ connCall.env.release = "usberr"
    /\ device = "open"

(***************************************************************************)
(* Properties of the settings store                                        *)
(***************************************************************************)

\* C8: save() is atomic: while a save runs, and after one that failed
\* part-way, the file holds the complete previous document or the complete
\* new one, never an empty or partial one
C8_SaveIsAtomic ==
    (saving \/ hist.failed) =>
        \/ file = prevFile
        \/ DocSerialisable(output) /\ file = Written(output)

\* a settings state a v3 document can hold: every slot has the default
\* entries, every value is one JSON has, and the global keys are carried on
\* slot 0 (slots 1 to 3 hold them at their defaults)
JsonNative(val) == Serialisable(val) /\ JsonValue(val) = val

WellFormed(S) ==
    /\ \A i \in CalSlots : DOMAIN DEFAULT_CALIBRATION \subseteq DOMAIN S[i]
    /\ \A i \in CalSlots : \A k \in DOMAIN S[i] : JsonNative(S[i][k])
    /\ \A i \in CalSlots \ {0} : \A k \in GLOBAL_KEYS \cap DOMAIN S[i] :
           k \in DOMAIN DEFAULT_CALIBRATION /\ S[i][k] = DEFAULT_CALIBRATION[k]

\* C9: settings round trip: a well-formed state S written by save() and
\* read by load() into default calibrations is S again
C9_SettingsRoundTrip ==
    (hist.stage = "reloaded" /\ WellFormed(hist.S)) =>
        slot_calibrations = hist.S

C9_Witness ==
    /\ hist.stage = "reloaded"
    /\ WellFormed(hist.S)
    /\ hist.S # DefaultCalibrations
    /\ hist.S[0]["auto_connect"] # DEFAULT_CALIBRATION["auto_connect"]

\* the calibrations of hist.S came from load() of a v1 or v2 file
Migrated == hist.F.form = "json" /\ VersionOf(hist.F) < 3

\* no global key in the sections of slots 1 to 3
GlobalKeysOnSlot0Only(f) ==
    \A n \in DOMAIN f.slots :
        n # SlotName(0) => DOMAIN f.slots[n] \cap GLOBAL_KEYS = {}

\* C10: migration idempotence: load of any v1 or v2 file, then save, writes
\* a version 3 document, and loading it into default calibrations gives the
\* calibrations the first load gave
C10_MigrationIdempotent ==
    (hist.stage = "reloaded" /\ Migrated) =>
        /\ file.form = "json" /\ VersionOf(file) = 3
        /\ slot_calibrations = hist.S

\* C10, amended: the same for v1 and v2 files that keep the global keys out
\* of the sections of slots 1 to 3
C10_MigrationIdempotentGlobalsOnSlot0 ==
    (hist.stage = "reloaded" /\ Migrated /\ GlobalKeysOnSlot0Only(hist.F)) =>
        /\ file.form = "json" /\ VersionOf(file) = 3
        /\ slot_calibrations = hist.S

C10_Witness ==
    /\ hist.stage = "reloaded"
    /\ Migrated
    /\ VersionOf(hist.F) = 2
    /\ GlobalKeysOnSlot0Only(hist.F)
    /\ "known_ble_devices" \in DOMAIN slot_calibrations[0]
    /\ "AA:01" \in DOMAIN slot_calibrations[0]["known_ble_devices"].m
    /\ slot_calibrations = hist.S

\* the seven legacy key names of key_migration
LegacyKeys == { key_migration[n][1] : n \in DOMAIN key_migration }

\* every key that occurs in a document, at the top level or in a section
KeysOfDoc(f) ==
    DOMAIN f.top \cup DOMAIN f.global
        \cup UNION { DOMAIN f.slots[n] : n \in DOMAIN f.slots }

\* where save() writes the entry of slot 0 named k
WrittenEntry(f, k) ==
    IF k \in GLOBAL_KEYS THEN f.global ELSE f.slots[SlotName(0)]

\* hist.S came from load() of a v1 file and the file is what save() wrote
SavedFromFlat == hist.stage = "saved" /\ Migrated /\ VersionOf(hist.F) < 2

\* C11: after load() of a v1 file and save(), no legacy key name is left in
\* the written document, and every legacy key's value stands under its new
\* name (slot 0, or global for trigger_bump_100_percent), unless the file
\* already had the new name, whose value is then the one kept
C11_LegacyKeysRenamed ==
    SavedFromFlat =>
        /\ KeysOfDoc(file) \cap LegacyKeys = {}
        /\ \A n \in DOMAIN key_migration :
               LET old_key == key_migration[n][1]
                   new_key == key_migration[n][2]
               IN  old_key \in DOMAIN hist.F.top =>
                       /\ new_key \in DOMAIN WrittenEntry(file, new_key)
                       /\ WrittenEntry(file, new_key)[new_key] =
                              IF new_key \in DOMAIN hist.F.top
                              THEN hist.F.top[new_key]
                              ELSE hist.F.top[old_key]

C11_Witness ==
    /\ SavedFromFlat
    /\ {"left_bump", "bump_100_percent", "trigger_bump_100_percent"}
           \subseteq DOMAIN hist.F.top
    /\ "trigger_left_bump" \notin DOMAIN hist.F.top
    /\ file.slots[SlotName(0)]["trigger_left_bump"] = hist.F.top["left_bump"]
    /\ file.global["trigger_bump_100_percent"]
           = hist.F.top["trigger_bump_100_percent"]

\* C12: when load() meets an exception it does not propagate it and leaves
\* every slot calibration as it was before the call
C12_FailedLoadChangesNothing ==
    [][hist'.loadRaised => slot_calibrations' = slot_calibrations]_vars

(***************************************************************************)
(* Properties of the stick axes                                            *)
(***************************************************************************)

\* C13: a centred stick is stored as byte 128 on both axes of the stick (the
\* value of the neutral state), and a full-right input (32767, 0) as 255 on
\* the X axis with 128 on the Y axis
C13_CentredStickIs128 ==
    /\ (stickCall.op = "left_joystick" /\ stickCall.x = 0 /\ stickCall.y = 0)
           => (axes.lx = NeutralAxes.lx /\ axes.ly = NeutralAxes.ly)
    /\ (stickCall.op = "right_joystick" /\ stickCall.x = 0 /\ stickCall.y = 0)
           => (axes.rx = NeutralAxes.rx /\ axes.ry = NeutralAxes.ry)
    /\ (stickCall.op = "left_joystick" /\ stickCall.x = 32767
           /\ stickCall.y = 0) => (axes.lx = 255 /\ axes.ly = 128)

\* a packet with its bytes 8..11 held at zero
CrcZeroed(p) == SubSeq(p, 1, 8) \o <<0, 0, 0, 0>> \o SubSeq(p, 13, Len(p))

\* the message type a builder puts in the payload
MsgTypeOf(kind) ==
    IF kind = "version" THEN MSG_TYPE_VERSION
    ELSE IF kind = "port_info" THEN MSG_TYPE_PORTS ELSE MSG_TYPE_DATA

\* C14: every packet the server emits (version reply, port-info reply,
\* pad-data packet) carries in bytes 8..11, little-endian, the CRC32 of the
\* whole packet computed with bytes 8..11 held at zero, and no field is
\* modified after the CRC was written: the packet handed to sendto still has
\* the header and message type it was built with.
C14_CrcCoversWholePacket ==
    built # << >> =>
        /\ SubSeq(built, 9, 12) = Crc32Bytes(CrcZeroed(built))
        /\ SubSeq(built, 1, 4) = DSUS_MAGIC
        /\ SubSeq(built, 5, 6) = LittleEndian(DSU_PROTOCOL_VERSION, 2)
        /\ SubSeq(built, 7, 8) = LittleEndian(Len(built) - HEADER_SIZE, 2)
        /\ SubSeq(built, 13, 16) = LittleEndian(builtOf.server_id, 4)
        /\ SubSeq(built, 17, 20) = LittleEndian(MsgTypeOf(builtOf.kind), 4)

C14_Witness ==
    /\ builtOf.kind = "data"
    /\ builtOf.counter > 0
    /\ builtOf.connected
    /\ Len(built) = 100
    /\ SubSeq(built, 9, 12) # <<0, 0, 0, 0>>

-----------------------------------------------------------------------------
(* Properties of the listener *)

\* this step is the listener reading the datagram at the head of the inbox
\* and handling it
Handling ==
    /\ listener = "recv" /\ inbox # << >>
    /\ inbox' = << >>
    /\ stopCall' = stopCall /\ sock'

IsVersionRequest(data) ==
    Accepted(data) /\ MsgTypeIs(data, MSG_TYPE_REQ_VERSION)

\* the 22 bytes of a version reply
VersionReplyBytes(w) ==
    /\ Len(w) = 22
    /\ SubSeq(w, 1, 4) = DSUS_MAGIC
    /\ SubSeq(w, 5, 6) = LittleEndian(1001, 2)
    /\ SubSeq(w, 7, 8) = LittleEndian(6, 2)
    /\ SubSeq(w, 17, 20) = LittleEndian(MSG_TYPE_VERSION, 4)
    /\ SubSeq(w, 21, 22) = LittleEndian(1001, 2)

\* a version request waits in the socket of the running server
VersionPending ==
    running /\ inbox # << >> /\ IsVersionRequest(Head(inbox).data)

\* the listener has just sent one version reply
VersionAnswered == Len(replies) = 1 /\ replies[1].kind = "version"

\* C15: for every well-formed version request (magic DSUC, message type
\* 0x00100000) the listener sends exactly one reply, to the sender's address:
\* a 22-byte packet with magic DSUS, version 1001, header length field 6,
\* message type 0x00100000 and max-protocol-version 1001; handling a version
\* request leaves the subscriber map and all slot state unchanged.  Every
\* version request received by the running server is answered unless the
\* server is stopped first.
C15_VersionRequestAnswered ==
    /\ [][Handling /\ IsVersionRequest(Head(inbox).data) =>
            /\ Len(replies') = 1
            /\ replies'[1].to = Head(inbox).from
            /\ \A id \in ServerIds : VersionReplyBytes(Wire(replies'[1], id))
            /\ UNCHANGED <<subscribers, slot_connected, slot_packet_counter,
                           slot_states>>]_vars
    /\ (VersionPending ~> (VersionAnswered \/ stopCall # "none"))

IsPortRequest(data) == Accepted(data) /\ MsgTypeIs(data, MSG_TYPE_REQ_PORTS)

InSlotRange(v) == v \in 0 .. 3

\* the slot bytes of a port-info request that are answered: of the bytes
\* listed from offset 24 on, the first min(n, 4), n the number of pads
\* announced at offset 20, and of these the values in 0..3
AnsweredSlots(data) ==
    IF Len(data) < 24 THEN << >>
    ELSE LET n      == data[21] + 256 * data[22] + 65536 * data[23]
                          + 16777216 * (data[24] % 128)
             listed == SubSeq(data, 25, Len(data))
         IN  SelectSeq(SubSeq(listed, 1, Min(Min(n, 4), Len(listed))),
                       InSlotRange)

\* bytes of a port-info reply: it names the slot and reports state connected
\* (2) or disconnected (0)
PortReplyBytes(w, slot, connected) ==
    /\ Len(w) = 32
    /\ SubSeq(w, 1, 4) = DSUS_MAGIC
    /\ SubSeq(w, 17, 20) = LittleEndian(MSG_TYPE_PORTS, 4)
    /\ w[21] = slot
    /\ (w[22] = 2) = connected
    /\ w[22] \in {0, 2}

\* a port-info request that names a slot waits in the socket of the running
\* server
PortPending ==
    /\ running /\ inbox # << >>
    /\ IsPortRequest(Head(inbox).data)
    /\ AnsweredSlots(Head(inbox).data) # << >>

PortAnswered == replies # << >> /\ replies[1].kind = "port_info"

\* C16: for a port-info request that announces n pads and lists slot bytes,
\* the server replies with one port-info packet for each of the first
\* min(n, 4) listed slot bytes that is present in the datagram and has a value
\* in 0..3, in listed order, and with no packet for any other slot; each reply
\* names that slot and reports state connected if and only if the slot is
\* currently marked connected; a request shorter than 24 bytes gets no reply.
\* Every such request received by the running server is answered unless the
\* server is stopped first.
C16_PortRequestAnswered ==
    /\ [][Handling /\ IsPortRequest(Head(inbox).data) =>
            LET slots == AnsweredSlots(Head(inbox).data)
            IN  /\ Len(replies') = Len(slots)
                /\ \A i \in 1 .. Len(slots) :
                      /\ i <= Len(replies')
                      /\ replies'[i].to = Head(inbox).from
                      /\ \A id \in ServerIds :
                            PortReplyBytes(Wire(replies'[i], id), slots[i],
                                           slot_connected[slots[i]])]_vars
    /\ (PortPending ~> (PortAnswered \/ stopCall # "none"))

\* a datagram shorter than the header, or with another magic than DSUC
Malformed(data) == Len(data) < 16 \/ SubSeq(data, 1, 4) # DSUC_MAGIC

\* C17: a received datagram that is shorter than 16 bytes or whose first four
\* bytes are not 'DSUC' is dropped: no reply is sent for it, and the subscriber
\* map and all slot state are unchanged.
C17_MalformedDropped ==
    [][Handling /\ Malformed(Head(inbox).data) =>
          /\ replies' = << >>
          /\ listener' = "top"
          /\ UNCHANGED <<subscribers, slot_connected, slot_packet_counter,
                         slot_states>>]_vars

C17_Witness ==
    /\ Len(handled.data) = 20
    /\ SubSeq(handled.data, 1, 4) = DSUS_MAGIC
    /\ MsgTypeIs(handled.data, MSG_TYPE_REQ_VERSION)
    /\ replies = << >>
    /\ listener = "top"
    /\ subscribers # << >>
    /\ \E s \in Slots : slot_connected[s]

\* the ports start() tries
TriedPorts == BASE_PORT .. (BASE_PORT + MAX_PORT_ATTEMPTS - 1)

\* C18: DSUServer.start() tries ports 26760..26764 in ascending order, moving
\* to the next port when a bind fails because the address is in use, and
\* serves on the first port that binds; if none of the five binds, start()
\* fails with an error, no listener thread is started and the server is not
\* marked running.
C18_FirstFreePortOrFailure ==
    (startCall.called /\ stopCall = "none") =>
        IF TriedPorts \subseteq startCall.busy
        THEN /\ startCall.raised
             /\ ~running /\ ~thread /\ listener = "unstarted"
        ELSE /\ ~startCall.raised
             /\ port \in TriedPorts \ startCall.busy
             /\ \A q \in TriedPorts : q < port => q \in startCall.busy
             /\ running /\ thread /\ listener # "unstarted"

C18_Witness ==
    /\ startCall.called /\ stopCall = "none"
    /\ startCall.busy = {26760, 26761, 26763}
    /\ port = 26762
    /\ running /\ listener = "recv"

\* stop() has been called and has not returned, or has returned
StopCalled == stopCall # "none"

\* C19: after DSUServer.stop() is called the listener thread eventually
\* terminates (it re-checks the running flag at least once per receive
\* timeout) and handles no datagram received after stop() returned;
\* afterwards the socket is closed and cleared, and a second stop() is a
\* no-op.
C19_StopEndsListener ==
    /\ ((StopCalled /\ listener # "unstarted") ~> Terminated)
    /\ []~lateHandled
    /\ [](stopCall \in {"returned", "again"} =>
            ~sock /\ ~thread /\ ~running /\ inbox = << >>)
    /\ [][stopCall = "returned" /\ stopCall' = "again" =>
            UNCHANGED <<running, sock, port, thread, listener, inbox,
                        subscribers, slot_connected, slot_packet_counter,
                        slot_states>>]_vars

\* stop() has been called twice on a started server and the listener has left
\* its loop
C19_Witness ==
    /\ stopCall = "again"
    /\ listener = "exited"
    /\ ~sock /\ ~thread
    /\ startCall.called /\ ~startCall.raised

-----------------------------------------------------------------------------
(* Properties of the BLE connect tool *)

\* C20: in the BLE connect sequence, if enabling input notifications fails
\* (the subscription to handle 0x000A fails, or the write of 0x0100 to CCCD
\* handle 0x000B fails), the connect attempt is aborted and the program does
\* not enter the streaming/listening phase.
C20_EnableFailureAborts ==
    blePc \in {"subscribe_others", "listen"} =>
        /\ bleOut.subscribe # "failed"
        /\ bleOut.inputCccd # "failed"

\* the steps from "enable input notifications" on
Step6On ==
    {"step6_subscribe", "step6_input_cccd", "step6_cmd_resp_cccd",
     "subscribe_others", "listen"}

\* the commands written to handle 0x0014 so far, in order
CommandsWritten ==
    LET IsCmd(o) == o.op = "write" /\ o.handle = H_CMD_WRITE
        cmds == SelectSeq(bleLog, IsCmd)
    IN  IF Len(cmds) = 0 THEN << >>
        ELSE [i \in 1 .. Len(cmds) |-> cmds[i].data]

\* the commands of a whole run, which only --no-pair shortens
CommandsOfRun ==
    IF "--no-pair" \in argv THEN <<"spi_device_info", "led">>
    ELSE <<"spi_device_info", "pair_step1", "PAIR_STEP2", "PAIR_STEP3",
           "PAIR_STEP4", "spi_pairing_data", "led">>

\* the step that follows a response wait while the link is up
AfterWaiting(pc) ==
    IF pc = "step5_response" THEN "step6_subscribe"
    ELSE AfterStep(StepOfWait(pc))

\* C21: a command-response timeout on the device-info read, on any of the
\* four pairing commands, on the pairing-block read or on the LED command
\* does not abort the BLE connect sequence: with the link still connected
\* the step that follows is entered, the sequence ends early only by a
\* disconnection, at the enable-input-notifications step every command of
\* the run has been written whatever timed out, and that step is reached
\* unless the link goes down.
C21_TimeoutDoesNotAbort ==
    /\ [][timeouts' > timeouts /\ ~disconnected
            => blePc' = AfterWaiting(blePc)]_vars
    /\ [](blePc = "returned" /\ timeouts > 0 => disconnected)
    /\ [](blePc \in Step6On => CommandsWritten = CommandsOfRun)
    /\ (timeouts > 0 ~> (disconnected \/ blePc \in Step6On))

\* all seven response waits timed out and step 6 begins with the link up
C21_Witness ==
    /\ timeouts = 7
    /\ blePc = "step6_subscribe"
    /\ ~disconnected

\* the strategies of the specification for the key material read from SPI,
\* the first left out when EDIV and Rand are both zero
Strategies ==
    LET spi == [label |-> "SPI EDIV+Rand", ediv |-> ediv_value,
                rand |-> rand_bytes, ltk |-> ltk_bytes]
        zero == [label |-> "EDIV=0 Rand=0", ediv |-> 0, rand |-> ZeroRand,
                 ltk |-> ltk_bytes]
        rev == [label |-> "Reversed LTK", ediv |-> 0, rand |-> ZeroRand,
                ltk |-> Reversed(ltk_bytes)]
    IN  IF ediv_value = 0 /\ rand_bytes = ZeroRand
        THEN <<zero, rev>> ELSE <<spi, zero, rev>>

\* C23: link encryption with the LTK read from SPI tries (EDIV+Rand from
\* SPI, LTK as read), (EDIV=0, Rand=0, LTK as read), (EDIV=0, Rand=0, LTK
\* byte-reversed) in this order, the first one left out when the SPI EDIV and
\* Rand are both zero, so that no strategy is tried twice; no strategy is
\* tried while the link is encrypted (none at all when SMP encrypted it, none
\* after the strategy that encrypted it) and none without an LTK.
C23_EncryptionStrategies ==
    /\ [](/\ Len(tried) <= Len(Strategies)
          /\ tried = SubSeq(Strategies, 1, Len(tried))
          /\ \A i, j \in 1 .. Len(tried) :
                i # j => tried[i].label # tried[j].label
          /\ \A i, j \in 1 .. Len(tried) :
                /\ tried[i].label = "SPI EDIV+Rand"
                /\ tried[j].label = "EDIV=0 Rand=0"
                => <<tried[i].ediv, tried[i].rand>>
                       # <<tried[j].ediv, tried[j].rand>>
          /\ (tried # << >> => ltk_bytes # << >>))
    /\ [][is_encrypted => tried' = tried]_vars
    /\ [][tried' # tried /\ is_encrypted' => blePc' # "step4f_loop"]_vars

\* the first strategy failed, the second one encrypted the link and step 5
\* begins without the third
C23_Witness ==
    /\ Len(tried) = 2
    /\ tried[1].label = "SPI EDIV+Rand"
    /\ is_encrypted
    /\ blePc = "step5"

\* C24: scanning for the target MAC is retried until an advertisement from
\* the target is seen or the user aborts: the connect procedure never ends
\* on its own because a scan window went by without the target being seen.
C24_ScanRetried == ~(scan = "timeout" /\ blePc = "returned")

\* the operations of the specification's sequence, in its order, with the
\* response wait that follows each command
SequenceOps ==
    <<Op("pair", 0, ""), Op("request_mtu", 0, "512"),
      Op("write", H_SVC1_ENABLE, "0100"),
      Op("write", H_CMD_RESP_CCCD, "0100"),
      Op("subscribe", H_CMD_RESPONSE, ""),
      Op("write", H_CMD_WRITE, "spi_device_info"),
      Op("wait", H_CMD_RESPONSE, "step3"),
      Op("write", H_CMD_WRITE, "pair_step1"),
      Op("wait", H_CMD_RESPONSE, "step4a"),
      Op("write", H_CMD_WRITE, "PAIR_STEP2"),
      Op("wait", H_CMD_RESPONSE, "step4b"),
      Op("write", H_CMD_WRITE, "PAIR_STEP3"),
      Op("wait", H_CMD_RESPONSE, "step4c"),
      Op("write", H_CMD_WRITE, "PAIR_STEP4"),
      Op("wait", H_CMD_RESPONSE, "step4d"),
      Op("write", H_CMD_WRITE, "spi_pairing_data"),
      Op("wait", H_CMD_RESPONSE, "step4e"),
      Op("write", H_CMD_WRITE, "led"),
      Op("wait", H_CMD_RESPONSE, "step5"),
      Op("subscribe", H_INPUT_REPORT, ""),
      Op("write", H_INPUT_CCCD, "0100"),
      Op("write", H_CMD_RESP_CCCD, "0000")>>

\* the operations carried out, the encryption attempts left out
OpsButEncryption ==
    LET NotEncrypt(o) == o.op # "encrypt" IN SelectSeq(bleLog, NotEncrypt)

\* every encryption attempt comes after the wait of the pairing-block read
\* and before the LED command
EncryptionInPlace ==
    \A i \in 1 .. Len(bleLog) :
        bleLog[i].op = "encrypt" =>
            /\ \E j \in 1 .. i - 1 :
                  bleLog[j] = Op("wait", H_CMD_RESPONSE, "step4e")
            /\ \A j \in 1 .. i - 1 :
                  bleLog[j] # Op("write", H_CMD_WRITE, "led")

\* C25: on every run that reaches the end the BLE connect sequence has
\* performed, in this order, SMP pairing, the MTU request, the write to
\* 0x0005, the enabling of the command-response CCCD and the subscription to
\* 0x001A, the device-info read, the pairing commands 8a to 8d each followed
\* by a response wait, the pairing-block read, link encryption, the LED
\* command, the subscription to 0x000A, the write of 0x0100 to 0x000B and of
\* 0x0000 to 0x001B; and a command is written to 0x0014 only while the
\* command-response CCCD is enabled.
C25_StepOrder ==
    /\ [](blePc = "listen" =>
             OpsButEncryption = SequenceOps /\ EncryptionInPlace)
    /\ [][/\ Len(bleLog') > Len(bleLog)
          /\ bleLog'[Len(bleLog')].op = "write"
          /\ bleLog'[Len(bleLog')].handle = H_CMD_WRITE
          => cmd_resp_cccd = "enabled"]_vars

-----------------------------------------------------------------------------
(* Properties of the BLE command packets *)

\* the eight-byte prefix [cmd, 0x91, 0x01, subcmd, 0x00, len, 0x00, 0x00]
HasPrefix(pkt) ==
    /\ Len(pkt) >= 8
    /\ pkt[2] = 145 /\ pkt[3] = 1
    /\ pkt[5] = 0 /\ pkt[7] = 0 /\ pkt[8] = 0

PayloadLen(pkt) == Len(pkt) - 8

\* C22: every command packet the program builds for handle 0x0014 (SPI read,
\* LED, feature configure, feature enable, pairing steps 1 to 4 and the
\* generic build_cmd) is the 8-byte prefix [cmd, 0x91, 0x01, subcmd, 0x00,
\* len, 0x00, 0x00] followed by exactly len-1 payload bytes, len being the
\* value of byte 5.
C22_CommandFraming ==
    cmdCall.by # "none" =>
        /\ HasPrefix(cmdPkt)
        /\ PayloadLen(cmdPkt) = cmdPkt[6] - 1

-----------------------------------------------------------------------------
(* Properties of the migration of v2 and v3 settings files *)

\* load() has read a file of the given version into the calibrations the
\* application constructed, without raising, and nothing was edited since
LoadedVersion(version) ==
    /\ loaded.form = "json"
    /\ VersionOf(loaded) = version
    /\ ~LoadRaises(loaded)

\* upper(a) for the preferred address a of slot i, "" when it has none
SlotAddress(f, i) ==
    LET slot_data == SlotSection(f.slots, i)
    IN  IF "preferred_ble_address" \in DOMAIN slot_data
        THEN Upper(slot_data["preferred_ble_address"].v) ELSE ""

\* the BLE calibration keys present in slot i
SlotDeviceCal(f, i) ==
    LET slot_data == SlotSection(f.slots, i)
    IN  [k \in BLE_DEVICE_CAL_KEYS \cap DOMAIN slot_data |-> slot_data[k]]

\* the known_ble_devices map of the file's global section
FileKnownDevices(f) ==
    IF "known_ble_devices" \in DOMAIN f.global
    THEN f.global["known_ble_devices"].m ELSE EmptyDict

\* the addresses of the old known_ble_addresses list, uppercased
ListAddresses(f) ==
    IF "known_ble_addresses" \in DOMAIN f.global
    THEN { Upper(f.global["known_ble_addresses"].l[n]) :
             n \in 1 .. Len(f.global["known_ble_addresses"].l) }
    ELSE {}

\* the map the migration of a v2 file is to produce
MigratedDevices(f) ==
    LET slotAddrs == { SlotAddress(f, i) : i \in CalSlots } \ {""}
        FirstSlot(a) ==
            CHOOSE i \in CalSlots :
                /\ SlotAddress(f, i) = a
                /\ \A j \in CalSlots : SlotAddress(f, j) = a => i <= j
    IN  [a \in DOMAIN FileKnownDevices(f) \cup slotAddrs \cup ListAddresses(f)
            |-> IF a \in DOMAIN FileKnownDevices(f)
                THEN FileKnownDevices(f)[a]
                ELSE IF a \in slotAddrs THEN SlotDeviceCal(f, FirstSlot(a))
                ELSE EmptyDict]

\* C26: after the load of a v2 file known_ble_devices holds, for every slot
\* with a non-empty preferred_ble_address a, the key upper(a) with exactly
\* the BLE calibration keys present in the lowest such slot, unless upper(a)
\* was a key of global.known_ble_devices already, whose entry is kept;
\* every address of the old known_ble_addresses list uppercased, with an
\* empty value unless already present; and nothing else.  No slot
\* calibration has gained a preferred_ble_address or connection_mode key and
\* the known_ble_addresses list is not carried over.
C26_V2Migration ==
    LoadedVersion(2) =>
        /\ "known_ble_devices" \in DOMAIN slot_calibrations[0]
        /\ slot_calibrations[0]["known_ble_devices"] =
               Dict(MigratedDevices(loaded))
        /\ \A i \in CalSlots :
               DOMAIN slot_calibrations[i]
                   \cap {"preferred_ble_address", "connection_mode",
                         "known_ble_addresses"} = {}

\* a v2 file whose slots 0 and 1 name the same address in different casing
\* and whose list names it again beside another one: the entry is slot 0's,
\* the other address has an empty one
C26_Witness ==
    /\ LoadedVersion(2)
    /\ SlotAddress(loaded, 0) = "AA:01"
    /\ SlotAddress(loaded, 1) = "AA:01"
    /\ ListAddresses(loaded) = {"AA:01", "BB:02"}
    /\ slot_calibrations[0]["known_ble_devices"].m =
           ("AA:01" :> ("stick_left_center_x" :> Num("130")))
               @@ ("BB:02" :> EmptyDict)

\* C27: after load() of any v2 or v3 settings file every key of the
\* known_ble_devices map held on slot 0 is an uppercase address (equal to its
\* own upper-casing), whatever casing the addresses had in the file.
C27_KnownDevicesUppercase ==
    (LoadedVersion(2) \/ LoadedVersion(3))
        /\ "known_ble_devices" \in DOMAIN slot_calibrations[0]
    => \A a \in DOMAIN slot_calibrations[0]["known_ble_devices"].m :
           Upper(a) = a

\* slots 1 to 3 hold what their own section says and the defaults, nothing
\* of the global section
OtherSlotsOwnValues ==
    \A i \in CalSlots \ {0} :
        LET section == SlotSection(loaded.slots, i)
        IN  \A k \in DOMAIN slot_calibrations[i] :
                slot_calibrations[i][k] =
                    IF k \in DOMAIN section THEN section[k]
                    ELSE DEFAULT_CALIBRATION[k]

\* C28 as stated: after load() of a v2 or v3 file, for every key k of
\* _GLOBAL_KEYS present in the file's global section slot 0's working
\* calibration has k equal to the global section's value, even when the
\* file's slot-0 section carries another value for k; slots 1 to 3 receive
\* no value from the global section.
C28_GlobalValueOnSlot0 ==
    (LoadedVersion(2) \/ LoadedVersion(3)) =>
        /\ \A k \in GLOBAL_KEYS \cap DOMAIN loaded.global :
               /\ k \in DOMAIN slot_calibrations[0]
               /\ slot_calibrations[0][k] = loaded.global[k]
        /\ OtherSlotsOwnValues

\* C28, amended: as stated, but for known_ble_devices of a v2 file slot 0
\* holds the global section's map extended by the migration (the entries for
\* the slots' preferred addresses and for the old list).
C28_GlobalValueOrMigratedMap ==
    (LoadedVersion(2) \/ LoadedVersion(3)) =>
        /\ \A k \in GLOBAL_KEYS \cap DOMAIN loaded.global :
               /\ k \in DOMAIN slot_calibrations[0]
               /\ slot_calibrations[0][k] =
                      IF k = "known_ble_devices" /\ VersionOf(loaded) = 2
                      THEN Dict(MigratedDevices(loaded))
                      ELSE loaded.global[k]
        /\ OtherSlotsOwnValues

\* a v3 file with auto_connect true in the global section and false in the
\* slot-0 section, and a slot-1 section: slot 0 holds true
C28_Witness ==
    /\ LoadedVersion(3)
    /\ "auto_connect" \in DOMAIN loaded.global
    /\ loaded.global["auto_connect"] = Bool("true")
    /\ "auto_connect" \in DOMAIN SlotSection(loaded.slots, 0)
    /\ SlotSection(loaded.slots, 0)["auto_connect"] = Bool("false")
    /\ SlotSection(loaded.slots, 1) # EmptyDict
    /\ slot_calibrations[0]["auto_connect"] = Bool("true")

-----------------------------------------------------------------------------
(* Properties of main(): the shutdown order and the headless mode *)

\* the calls of an orderly shutdown
StopOrder == <<"input_proc.stop", "emu_mgr.stop", "conn_mgr.disconnect">>

\* in a run of calls, each close of the device handle comes after a stop of
\* the read worker
ClosesAfterStop(calls) ==
    \A i \in DOMAIN calls :
        calls[i] \in {"conn_mgr.disconnect", "device.close"} =>
            \E k \in 1 .. (i - 1) : calls[k] = "input_proc.stop"

\* C29: on user disconnect, on window close and on headless shutdown the
\* orchestrator stops the read worker, then stops emulation, and only then
\* closes the device handle through the connection manager; on these paths
\* the handle is never closed before the read worker was told to stop.
C29_StopBeforeClose ==
    /\ guiOp.op \in {"disconnect", "closing"} =>
           /\ guiOp.calls = StopOrder
           /\ ClosesAfterStop(guiOp.calls)
           /\ stop_event /\ ~is_reading /\ ~is_emulating /\ device = "none"
    /\ hPc = "done" =>
           /\ hCalls = StopOrder
           /\ ClosesAfterStop(hCalls)
           /\ stop_event /\ ~is_reading /\ ~is_emulating /\ device = "none"

\* a headless run that reconnected once has shut down in this order
C29_Witness ==
    /\ hPc = "done"
    /\ hCalls = StopOrder
    /\ was_emulating
    /\ main_stop_event

\* the emulation_mode a settings file stores, "absent" when there is no
\* file or the file stores none
SavedMode(f) == IF f.exists THEN f.emulation_mode ELSE "absent"

\* C30: run_headless binds the backend named by --mode when one is given;
\* when none is given it binds the emulation_mode stored in the existing
\* settings file, and falls back to 'xbox360' only when no saved mode exists.
C30_HeadlessMode ==
    mode # "unset" =>
        mode = IF mode_override # "None" THEN mode_override
               ELSE IF SavedMode(hFile) # "absent" THEN SavedMode(hFile)
               ELSE "xbox360"

-----------------------------------------------------------------------------
(* Properties of the DSU server singleton when start() fails *)

\* C31: if DSUServer.start() fails inside _acquire_server, the singleton is
\* left as it was before the call (no instance retained, refcount unchanged),
\* so that a later _acquire_server starts again and no pad ever holds a server
\* that is not listening.
C31_FailedStartLeavesNoInstance ==
    /\ (lastOp.op = "construct" /\ lastOp.raised) =>
           ~server_instance /\ server_refcount = Cardinality(OpenPads)
    /\ OpenPads # {} => (server_instance /\ running /\ sock /\ port # 0)

-----------------------------------------------------------------------------
(* Properties of the listener thread's survival *)

\* C32: while the server is running the listener thread survives every
\* received datagram, whatever its content and length and whatever reply
\* send fails; it terminates only after stop().
C32_ListenerSurvives ==
    (startCall.called /\ ~startCall.raised /\ stopCall = "none") =>
        /\ running
        /\ listener \in {"top", "recv"}

-----------------------------------------------------------------------------
(* Properties of update() / reset() running while close() runs *)

\* C33: when update() or reset() on the input thread runs concurrently with
\* close() on another thread, in every interleaving no pad-data packet for
\* the slot is sent after close() has returned, the slot has the neutral
\* state and packet counter 0 once close() has returned, and update() and
\* reset() never raise because the socket was torn down underneath them.
C33_UpdateCloseRace ==
    /\ ~sentAfterClose
    /\ cPc = "returned" => (rSlotState = Neutral /\ rCounter = 0)
    /\ uPc # "raised"

-----------------------------------------------------------------------------
(* Properties of the slots' connected flags *)

\* the open pads bound to slot s
PadsOnSlot(s) == { p \in OpenPads : pads[p].slot = s }

\* C34: after any sequence of DSUGamepad constructions (the same slot index
\* possibly used by several pads) and close() calls, a slot is marked
\* connected in the server, and so reported in port-info and pad-data
\* packets, if and only if at least one pad not yet closed is bound to it.
C34_ConnectedIffOpenPad ==
    server_instance =>
        \A s \in Slots : slot_connected[s] <=> (PadsOnSlot(s) # {})

-----------------------------------------------------------------------------
(* Properties of the connection manager's device handle *)

\* C35: ConnectionManager.device is non-None only between a successful
\* connect() and the next disconnect(): whenever connect() returns False the
\* manager holds no handle afterwards, and after disconnect() the handle is
\* None, even when closing raised or disconnect() is called again.
C35_DeviceOnlyWhileConnected ==
    /\ (connCall.op = "connect" /\ ~connCall.ret) => device = "none"
    /\ connCall.op = "disconnect" => device = "none"
    /\ device # "none" => (connCall.op = "connect" /\ connCall.ret)

-----------------------------------------------------------------------------
(* Properties of the command responses of the BLE handshake *)

\* C36: each response wait returns either nothing (timeout) or a
\* notification the peripheral sent in reply to the command written
\* immediately before that wait; a response arriving after its own wait has
\* timed out is never consumed as the response to a later command, so the
\* LTK, EDIV and Rand are parsed only from the reply to the pairing-block
\* read.
C36_ResponseMatchesCommand ==
    /\ \A s \in CmdSteps : hsGot[s] \in {"pending", "None", s}
    /\ hsGot["step4e"] \in {"pending", "None", "step4e"}

(***************************************************************************)
(* C37, C38: the setters of DSUGamepad                                     *)
(***************************************************************************)

HasBit(value, bit) == (value \div bit) % 2 = 1

ByteBits == {1, 2, 4, 8, 16, 32, 64, 128}

\* t differs from s at most in the bit and the pressure byte of action a
OnlyTouches(s, t, a) ==
    /\ t[a.key] \in 0 .. 255
    /\ \A bit \in ByteBits \ {a.bit} : HasBit(t[a.key], bit) = HasBit(s[a.key], bit)
    /\ \A k \in DOMAIN s \ {a.key, a.pressure} : t[k] = s[k]

\* C37: in every pad state and for every mapped button b, press_button(b)
\* sets b's bit and makes b's pressure byte 255 when it has one,
\* release_button(b) clears the bit and makes the pressure byte 0; no other
\* button bit, pressure byte, stick or trigger value changes; each call is
\* idempotent; press then release restores the state when b was released;
\* a button without a mapping changes nothing.
C37_PressReleaseFrame ==
    /\ \A b \in MappedButtons :
          LET a == _BUTTON_ACTIONS[b][1]
              pressed == press_button(_state, b)
              released == release_button(_state, b)
          IN  /\ Len(_BUTTON_ACTIONS[b]) = 1
              /\ HasBit(pressed[a.key], a.bit)
              /\ a.pressure # "None" => pressed[a.pressure] = 255
              /\ OnlyTouches(_state, pressed, a)
              /\ ~HasBit(released[a.key], a.bit)
              /\ a.pressure # "None" => released[a.pressure] = 0
              /\ OnlyTouches(_state, released, a)
              /\ press_button(pressed, b) = pressed
              /\ release_button(released, b) = released
              /\ ~HasBit(_state[a.key], a.bit)
                    => release_button(pressed, b) = _state
    /\ press_button(_state, UnmappedButton) = _state
    /\ release_button(_state, UnmappedButton) = _state

\* Y is held and the left stick pushed or a trigger pulled, then A is pressed
C37_Witness ==
    /\ padCalls = MaxPadCalls
    /\ padCall.op = "press_button" /\ padCall.button = "A"
    /\ _state.buttons2 = 80 /\ _state.cross = 255 /\ _state.triangle = 255

\* values the stored stick bytes are compared against
StickProbes == {1000 * k : k \in (0 - 40) .. 40} \cup PadStickInputs

\* C38: after any sequence of stick, trigger, press and release calls with
\* any integer arguments every entry of the pad state lies in 0..255; the
\* stored X byte is non-decreasing in x_value and the stored Y byte is
\* non-increasing in y_value.
C38_BytesInRangeAndMonotone ==
    /\ \A k \in DOMAIN _state : _state[k] \in 0 .. 255
    /\ padCall.op \in {"left_joystick", "right_joystick"} =>
          LET xb == IF padCall.op = "left_joystick" THEN _state.lx ELSE _state.rx
              yb == IF padCall.op = "left_joystick" THEN _state.ly ELSE _state.ry
          IN  \A v \in StickProbes :
                 /\ v >= padCall.x => LeftStick(_state, v, v).lx >= xb
                 /\ v <= padCall.x => RightStick(_state, v, v).rx <= xb
                 /\ v >= padCall.y => LeftStick(_state, v, v).ly <= yb
                 /\ v <= padCall.y => RightStick(_state, v, v).ry >= yb

\* a trigger pulled beyond 255, then the left stick pushed beyond 32767
C38_Witness ==
    /\ padCall.op = "left_joystick" /\ padCall.x = 40000
    /\ padCall.y = 0 - 40000
    /\ _state.lx = 255 /\ _state.ly = 255 /\ _state.r_trigger = 255

(***************************************************************************)
(* C39: shutdown and reconnection in run_headless                          *)
(***************************************************************************)

\* the main loop of run_headless: streaming, or retrying the connection
Streaming == {"loop", "wait"}
Retrying == {"reconnect", "retry_wait"}

\* the moves the main thread makes once the stop flag is set: none of them
\* is a connect attempt
StopMoves ==
    {<<"loop", "teardown">>, <<"wait", "teardown">>, <<"reconnect", "loop">>,
     <<"retry_wait", "reconnect">>, <<"teardown", "done">>}

\* with the stop flag set, the loop only moves towards the teardown and
\* neither connects nor starts the read worker or the emulation
NoConnectAfterStop ==
    [][(main_stop_event /\ hPc \in Streaming \cup Retrying) =>
          /\ hPc' = hPc \/ <<hPc, hPc'>> \in StopMoves
          /\ device' = device
          /\ is_reading' => is_reading
          /\ is_emulating' => is_emulating]_vars

\* the teardown runs once: it is the one step into "done", it makes the
\* three calls, and nothing runs after it
TeardownOnce ==
    [][/\ hPc' = "done" /\ hPc # "done" =>
              /\ hPc = "teardown" /\ main_stop_event
              /\ hCalls' = StopOrder
              /\ ~is_reading' /\ ~is_emulating' /\ device' = "none"
       /\ hPc = "done" => UNCHANGED vars]_vars

\* C39: in headless mode, once a shutdown signal has set the stop flag the
\* main loop leaves the disconnect wait and the retry loop, whether it was
\* streaming or retrying, starts no connect attempt after it has seen the
\* flag, and runs the teardown exactly once; a disconnect signalled by the
\* read worker while no shutdown is pending is followed by a reconnect
\* attempt (a failed one waits for the retry, a successful one has the read
\* worker running again) unless a shutdown arrives first.
C39_ShutdownAndReconnect ==
    /\ (main_stop_event /\ hPc \in Streaming \cup Retrying) ~> (hPc = "done")
    /\ NoConnectAfterStop
    /\ TeardownOnce
    /\ (disconnect_event /\ ~main_stop_event /\ hPc \in Streaming)
           ~> (hPc = "retry_wait" \/ is_reading \/ main_stop_event)

\* torn down after a disconnect was handled with emulation on, with the
\* event of the shutdown never consumed by the wait: the flag was seen by
\* a loop condition
C39_Witness ==
    /\ hPc = "done"
    /\ main_stop_event
    /\ disconnect_event
    /\ was_emulating
    /\ hCalls = StopOrder

(***************************************************************************)
(* C40: _attempt_reconnect and the stop flag                               *)
(***************************************************************************)

\* the steps in which _attempt_reconnect runs: a reconnect timer fires, or
\* _on_unexpected_disconnect makes the first attempt
AttemptRuns == guiOp'.op \in {"reconnect", "on_disconnect"}

\* the reconnect timers pending once the running attempt has been taken
\* off the queue
TimersLeft == IF guiOp'.op = "reconnect" THEN timers - 1 ELSE timers

\* C40: in the GUI orchestrator, a reconnect attempt that runs with the
\* input processor's stop flag set performs no connect(), does not start the
\* read worker, does not restart emulation and schedules no further retry;
\* an attempt that runs with the flag clear calls connect() and, when that
\* fails, schedules exactly one further attempt.
C40_StoppedAttemptDoesNothing ==
    [][AttemptRuns =>
          IF stop_event
          THEN /\ ~guiOp'.connectCalled /\ ~guiOp'.started
               /\ ~guiOp'.emuStart /\ ~guiOp'.scheduled
               /\ timers' = TimersLeft
               /\ ~is_reading' /\ stop_event'
               /\ is_emulating' => is_emulating
               /\ connCall' = connCall
          ELSE /\ guiOp'.connectCalled
               /\ ~guiOp'.ret =>
                     /\ guiOp'.scheduled /\ timers' = TimersLeft + 1
                     /\ ~guiOp'.started /\ ~guiOp'.emuStart
               /\ guiOp'.ret =>
                     /\ ~guiOp'.scheduled /\ timers' = TimersLeft
                     /\ guiOp'.started]_vars

\* a reconnect timer has fired after the user disconnected: the attempt made
\* no connect() and the timer is gone
C40_Witness ==
    /\ guiOp.op = "reconnect"
    /\ ~guiOp.connectCalled
    /\ stop_event
    /\ timers = 0
    /\ ~is_reading
    /\ device = "none"

====
